---- MODULE Spec2Model ----
(***************************************************************************)
(* Model of the Mini-Trading-System core: the per-symbol limit order book  *)
(* (OrderBookSide / OrderBook), the Order object, the MatchingEngine with  *)
(* its request queue and worker thread, and the gateway / FIX session send *)
(* path.  Every operator is translated from the C++ it names in            *)
(* MODEL_MAP.json.                                                         *)
(*                                                                         *)
(* Specifications:                                                         *)
(*   SpecBook  - OrderBook::addOrder / OrderBook::cancelOrder called       *)
(*               directly on one book (as tests/test_order_book.cpp does). *)
(*   Spec      - the MatchingEngine: start / stop, the asynchronous        *)
(*               requests submitOrder / cancelOrder / modifyOrder, the     *)
(*               worker thread draining the queue, and the synchronous     *)
(*               calls processOrderSync / cancelOrderSync.                 *)
(*   SpecGateway - the TradingSystem gateway and its FixSessions: client   *)
(*               connections, inbound FIX messages, and the execution      *)
(*               reports the engine hands to handleExecutionReport.  The   *)
(*               engine is seen through its interface here: the result of  *)
(*               submitOrder / cancelOrder and the reports it calls back   *)
(*               with are inputs.                                          *)
(*   SpecTif   - the book harness of SpecBook with IOC and FOK orders.     *)
(*   SpecRisk  - new orders through the engine with processNewOrder in     *)
(*               two steps (checks, insertion) on the worker and on a      *)
(*               caller of processOrderSync.                               *)
(*   SpecSystem - the gateway wired to the engine: client messages become  *)
(*               engine requests, the worker's reports go back through     *)
(*               handleExecutionReport.                                    *)
(*   SpecLifecycle - TradingSystem::stop / MatchingEngine::stop called by  *)
(*               the main thread and by the signal handler, one memory     *)
(*               access per step.                                          *)
(*   SpecSession - one FixSession: processIncomingMessage, checkHeartbeat, *)
(*               logout and the passing of time.                           *)
(*   SpecCodec - FixMessage::serialize and FixMessage::parse /             *)
(*               parseUnsafe on byte sequences.                            *)
(*   SpecLocks - the lock and unlock calls of the engine's operations and  *)
(*               of the execution report callback, one call per step.      *)
(***************************************************************************)
EXTENDS Integers, Sequences, FiniteSets, TLC

\* ------------------------------------------------------------------------
\* Bounds of the model
\* ------------------------------------------------------------------------
\* orders created in one run
MaxOrders == 3

OrderIds == 1..MaxOrders
\* the limit prices and the quantities the callers choose from
Prices == {1, 2}
Quantities == {1, 2}

\* numeric_limits<Price>::max(): above every order price of the model
PriceMax == 3
\* numeric_limits<Price>::min(): the smallest positive double, below every
\* order price of the model
PriceMin == 0

\* orders the engine's callers create in one run
MaxEngineOrders == 2
\* cancel and modify requests issued in one run
MaxRequests == 2
\* messages waiting in incomingMessages_
MaxQueue == 2

\* cap on the process-wide counter g_msgSeqNum (FixMessage objects built)
MaxSeq == 4
\* cap on the MsgSeqNum of inbound messages
MaxInSeq == 4
\* orders the gateway converts in one run
MaxGatewayOrders == 2
\* the client sockets
Clients == {1, 2}

Sides == {"Buy", "Sell"}
OrderTypes == {"Market", "Limit"}
\* enum class TimeInForce
\* the matching worker and the threads that call the engine's public
\* operations (network threads, the console)
LockThreads == {"worker", "caller1", "caller2"}
\* the mutexes of MatchingEngine, OrderBook, TradingSystem and TCPServer
Mutexes == {"messageQueueMutex_", "orderMapMutex_", "orderBooksMutex_", "mutex_",
            "mappingsMutex_", "clients_mutex_"}
\* connections accepted under one socket value
MaxConnections == 2
\* bytes in the value of a body field
MaxValueLen == 2
\* messages one FixSession receives in one run
MaxReceived == 2
\* seconds one run of a FixSession lasts
MaxTime == 3
\* the MsgSeqNum values a counterparty sends, -1 included (std::stoi reads
\* a sign)
InSeqNums == {-1, 1, 2, 3}
\* the HeartBtInt a Logon carries
HeartBtInt == 2
\* tag 36 of the SequenceReset messages they send
NewSeqNo == 5
\* the session's own CompID, the counterparty's and a third party's
LocalCompID == "SERVER"
RemoteCompID == "CLIENT"
OtherCompID == "OTHER"
\* an empty CompID string
NoCompID == ""
\* stop() calls one thread makes in one run
MaxStopCalls == 2
\* the threads that may call TradingSystem::stop: main() at "quit" and the
\* thread that runs signalHandler
StopThreads == {"main", "signal"}
TimeInForces == {"Day", "GTC", "IOC", "FOK"}
ImmediateTifs == {"IOC", "FOK"}
NoOrder == 0
\* no ExecutionReport sent yet
NoReport == [orderId |-> 0, socket |-> 0, connection |-> 0]
\* the one symbol the callers trade
Symbol == "AAPL"

VARIABLES
    orders,          \* heap of Order objects: OrderID -> Order
    bidSide_,        \* OrderBook::bidSide_  (OrderBookSide)
    askSide_,        \* OrderBook::askSide_  (OrderBookSide)
    lastTrades,      \* the trades vector returned by the last addOrder,
                     \* each trade extended with audit fields
    tradedQty,       \* audit: OrderID -> total quantity of the trades of the order
    addedAt,         \* audit: OrderID -> rank at which the order was inserted
                     \* into its book side
    lastOp,          \* audit: the last book operation, its result and the
                     \* thread that executed it
    running_,        \* MatchingEngine::running_
    liveWorkers,     \* number of threads executing processingLoop
    incomingMessages_,  \* MatchingEngine::incomingMessages_
    orderBooks_,     \* keys of MatchingEngine::orderBooks_ (the book of Symbol
                     \* is <<bidSide_, askSide_>>)
    orderSymbolMap_, \* MatchingEngine::orderSymbolMap_ : OrderID -> Symbol
    reports,         \* the execution reports handed to executionCallback_ or
                     \* returned by a synchronous call, in order
    requests,        \* number of cancel / modify requests issued
    pending,         \* thread -> the order that passed the checks of
                     \* processNewOrder on that thread and is not yet added
                     \* to its book (NoOrder when the thread is not there)
    sessions_,       \* TradingSystem::sessions_ : socket -> FixSession
    g_msgSeqNum,     \* the process-wide counter the FixMessage(char)
                     \* constructor draws MsgSeqNum from
    sent,            \* socket -> the messages handed to TcpServer::sendMessage
                     \* for the current connection, in order
    orderMappings_,  \* TradingSystem::orderMappings_ : OrderID -> socket
    nextOrderId_,    \* TradingSystem::nextOrderId_
    systemRunning_,  \* TradingSystem::running_
    stopPc,          \* thread -> its position in TradingSystem::stop and the
                     \* MatchingEngine::stop it calls
    processingThread_,  \* MatchingEngine::processingThread_ : "none" before
                     \* start, "joinable" while it owns the worker, "joined"
    joinCalls,       \* audit: number of processingThread_.join() calls that
                     \* returned
    stopFault,       \* audit: a stop() call ended in an error
    fixSession,      \* one FixSession object (its members)
    messagesReceived_,  \* FixSession::messagesReceived_
    outbox,          \* the messages the session's send function accepted
    forwarded,       \* the messages handed to applicationMessageHandler_
    now,             \* std::chrono::steady_clock::now(), in seconds
    lastIn,          \* audit: the last call into the session, its input and
                     \* what it returned and reported
    lastInboundAt,   \* audit: the time of the last inbound message
    lastOutboundAt,  \* audit: the time the session last sent a message (its
                     \* construction time before the first one)
    fields_,         \* FixMessage::fields_ of the message to serialize:
                     \* tag -> value, a value being a sequence of bytes
    rawMessage,      \* the bytes on the wire
    tampered,        \* audit: rawMessage is not what serialize() produced
    parsed,          \* the outcome of the last parse of rawMessage
    lockProgram,     \* thread -> the lock and unlock calls left in the
                     \* operation the thread is executing
    lockOp,          \* audit: thread -> the operation it is executing
    owners,            \* mutex -> the <<thread, mode>> pairs that own it
    writerPriority,  \* whether std::shared_mutex::lock_shared waits while a
                     \* lock() call is waiting (the standard leaves it open)
    connection,      \* audit: socket -> the number of connections accepted
                     \* under that socket value so far
    submittedBy,     \* audit: OrderID -> the socket and the connection that
                     \* sent the NewOrderSingle
    lastReport       \* audit: the last ExecutionReport sent for an engine
                     \* report: its order, the socket and the connection

bookVars == <<orders, bidSide_, askSide_, lastTrades, tradedQty, addedAt, lastOp>>
engineVars == <<running_, liveWorkers, incomingMessages_, orderBooks_,
                orderSymbolMap_, reports, requests, pending>>
gatewayVars == <<sessions_, g_msgSeqNum, sent, orderMappings_, nextOrderId_>>
lifeVars == <<systemRunning_, stopPc, processingThread_, joinCalls, stopFault>>
sessionVars == <<fixSession, messagesReceived_, outbox, forwarded, now, lastIn,
                 lastInboundAt, lastOutboundAt>>
codecVars == <<fields_, rawMessage, tampered, parsed>>
lockVars == <<lockProgram, lockOp, owners, writerPriority>>
routeVars == <<connection, submittedBy, lastReport>>
offRoute == <<lifeVars, sessionVars, codecVars, lockVars>>
auxVars == <<lifeVars, sessionVars, codecVars, lockVars, routeVars>>
\* what the shutdown path leaves alone, and what a FixSession leaves alone
offLifecycle == <<sessionVars, codecVars, lockVars, routeVars>>
offSession == <<bookVars, engineVars, gatewayVars, lifeVars, codecVars, lockVars, routeVars>>
offCodec == <<bookVars, engineVars, gatewayVars, lifeVars, sessionVars, lockVars, routeVars>>
offLocks == <<bookVars, engineVars, gatewayVars, lifeVars, sessionVars, codecVars, routeVars>>
vars == <<orders, bidSide_, askSide_, lastTrades, tradedQty, addedAt, lastOp,
          running_, liveWorkers, incomingMessages_, orderBooks_,
          orderSymbolMap_, reports, requests, pending,
          sessions_, g_msgSeqNum, sent, orderMappings_, nextOrderId_, auxVars>>

\* ------------------------------------------------------------------------
\* Order  (order.h / order.cpp)
\* ------------------------------------------------------------------------
Min(a, b) == IF a <= b THEN a ELSE b

\* Order::Order: a market order's price is forced to 0, remaining = quantity,
\* status New; timeInForce defaults to Day.
NewOrder(orderId, side, orderType, price, quantity) ==
    [orderId_ |-> orderId,
     symbol_ |-> Symbol,
     side_ |-> side,
     orderType_ |-> orderType,
     price_ |-> IF orderType = "Market" THEN 0 ELSE price,
     quantity_ |-> quantity,
     remainingQuantity_ |-> quantity,
     status_ |-> "New",
     timeInForce_ |-> "Day"]

\* Order::Order with the timeInForce argument given
NewOrderTif(orderId, side, orderType, price, quantity, timeInForce) ==
    [NewOrder(orderId, side, orderType, price, quantity) EXCEPT
        !.timeInForce_ = timeInForce]

isActive(o) == o.status_ = "New" \/ o.status_ = "PartiallyFilled"
isFilled(o) == o.status_ = "Filled"
isMarketOrder(o) == o.orderType_ = "Market"
isLimitOrder(o) == o.orderType_ = "Limit"
isBuyOrder(o) == o.side_ = "Buy"
isSellOrder(o) == o.side_ = "Sell"
getFilledQuantity(o) == o.quantity_ - o.remainingQuantity_

setStatus_Keep(o, status) == o

\* Order::setStatus
setStatus(o, status) == [o EXCEPT !.status_ = status]

fillQuantity_OverFill(o, filledQty) ==
    IF filledQty = 0
    THEN o
    ELSE [o EXCEPT !.remainingQuantity_ = 0, !.status_ = "Filled"]

\* Order::fillQuantity.  The throw on filledQty > remaining leaves the order
\* untouched.
fillQuantity(o, filledQty) ==
    IF filledQty = 0 \/ filledQty > o.remainingQuantity_
    THEN o
    ELSE [o EXCEPT !.remainingQuantity_ = @ - filledQty,
                   !.status_ = IF o.remainingQuantity_ - filledQty = 0
                               THEN "Filled" ELSE "PartiallyFilled"]

\* ------------------------------------------------------------------------
\* OrderBookSide  (order_book.cpp)
\*   priceLevels_ : std::map<Price, std::queue<OrderPtr>>  (function whose
\*                  domain is the set of keys; queues hold order ids)
\*   orders_      : std::map<OrderID, pair<Price, OrderPtr>> (id -> price)
\* ------------------------------------------------------------------------
EmptyFn == [x \in {} |-> 0]
EmptySide == [priceLevels_ |-> EmptyFn, orders_ |-> EmptyFn]

MapErase(f, k) == [x \in (DOMAIN f) \ {k} |-> f[x]]
MapPut(f, k, v) == [x \in (DOMAIN f) \cup {k} |-> IF x = k THEN v ELSE f[x]]

SideAddOrder_Front(sd, sideName, o) ==
    IF o.side_ # sideName
    THEN sd
    ELSE LET price == IF isMarketOrder(o)
                      THEN (IF sideName = "Buy" THEN PriceMax ELSE PriceMin)
                      ELSE o.price_
             level == IF price \in DOMAIN sd.priceLevels_
                      THEN sd.priceLevels_[price] ELSE <<>>
         IN [priceLevels_ |-> MapPut(sd.priceLevels_, price, <<o.orderId_>> \o level),
             orders_ |-> MapPut(sd.orders_, o.orderId_, price)]

\* OrderBookSide::addOrder
SideAddOrder(sd, sideName, o) ==
    IF o.side_ # sideName
    THEN sd
    ELSE LET price == IF isMarketOrder(o)
                      THEN (IF sideName = "Buy" THEN PriceMax ELSE PriceMin)
                      ELSE o.price_
             level == IF price \in DOMAIN sd.priceLevels_
                      THEN sd.priceLevels_[price] ELSE <<>>
         IN [priceLevels_ |-> MapPut(sd.priceLevels_, price, Append(level, o.orderId_)),
             orders_ |-> MapPut(sd.orders_, o.orderId_, price)]

SideRemoveOrder_Noop(sd, orderId) ==
    [side |-> sd, ok |-> orderId \in DOMAIN sd.orders_]

SideRemoveOrder_IndexOnly(sd, orderId) ==
    IF orderId \notin DOMAIN sd.orders_
    THEN [side |-> sd, ok |-> FALSE]
    ELSE [side |-> [sd EXCEPT !.orders_ = MapErase(sd.orders_, orderId)], ok |-> TRUE]

\* OrderBookSide::removeOrder: erase from the index, rebuild the level's queue
\* without the order, erase the level when it became empty.
SideRemoveOrder(sd, orderId) ==
    IF orderId \notin DOMAIN sd.orders_
    THEN [side |-> sd, ok |-> FALSE]
    ELSE LET price == sd.orders_[orderId]
             level == IF price \in DOMAIN sd.priceLevels_
                      THEN sd.priceLevels_[price] ELSE <<>>
             newQueue == SelectSeq(level, LAMBDA x : x # orderId)
         IN [side |-> [priceLevels_ |-> IF newQueue = <<>>
                                        THEN MapErase(sd.priceLevels_, price)
                                        ELSE MapPut(sd.priceLevels_, price, newQueue),
                       orders_ |-> MapErase(sd.orders_, orderId)],
             ok |-> TRUE]

SideFindOrder_None(sd, orderId) == NoOrder

\* OrderBookSide::findOrder
SideFindOrder(sd, orderId) ==
    IF orderId \in DOMAIN sd.orders_ THEN orderId ELSE NoOrder

\* the while loop of getBestOrder that pops inactive heads of one level
RECURSIVE PopInactive(_, _)
PopInactive(q, ords) ==
    IF q # <<>> /\ ~isActive(ords[Head(q)])
    THEN PopInactive(Tail(q), ords)
    ELSE q

SetMax(S) == CHOOSE x \in S : \A y \in S : y <= x
SetMin(S) == CHOOSE x \in S : \A y \in S : x <= y

FirstKey_Reversed(keys, sideName) ==
    IF sideName = "Buy" THEN SetMin(keys) ELSE SetMax(keys)

\* iteration order of getBestOrder: rbegin() for bids, begin() for asks
FirstKey(keys, sideName) ==
    IF sideName = "Buy" THEN SetMax(keys) ELSE SetMin(keys)

RECURSIVE ScanLevels(_, _, _, _)
ScanLevels(levels, keys, sideName, ords) ==
    IF keys = {}
    THEN [levels |-> levels, best |-> NoOrder]
    ELSE LET Level(k, q) ==
                 IF q # <<>>
                 THEN [levels |-> [levels EXCEPT ![k] = q], best |-> Head(q)]
                 ELSE ScanLevels([levels EXCEPT ![k] = q], keys \ {k}, sideName, ords)
             At(k) == Level(k, PopInactive(levels[k], ords))
         IN At(FirstKey(keys, sideName))

\* OrderBookSide::getBestOrder: returns the best order and the side as the
\* const_cast pops left it.
getBestOrder(sd, sideName, ords) ==
    LET Result(r) == [side |-> [sd EXCEPT !.priceLevels_ = r.levels], best |-> r.best]
    IN Result(ScanLevels(sd.priceLevels_, DOMAIN sd.priceLevels_, sideName, ords))

\* OrderBookSide::getOrderCount
getOrderCount(sd) == Cardinality(DOMAIN sd.orders_)

\* ------------------------------------------------------------------------
\* OrderBook  (order_book.cpp)
\* A book state is [orders, bid, ask, trades, traded]: the Order heap, the two
\* sides, the trades vector being built and the audit of traded quantity.
\* ------------------------------------------------------------------------
canMatch_Strict(bidPrice, askPrice) == bidPrice > askPrice

\* OrderBook::canMatch
canMatch(bidPrice, askPrice) == bidPrice >= askPrice

tradePriceOf_Aggressor(order, bestOpposite) ==
    IF isMarketOrder(order) THEN bestOpposite.price_ ELSE order.price_

\* "Price tradePrice = bestOpposite->getPrice();"
tradePriceOf(order, bestOpposite) == bestOpposite.price_

\* ids held by a side, in its price ladder or in its id index
LadderIds(sd) ==
    UNION {{sd.priceLevels_[p][i] : i \in 1..Len(sd.priceLevels_[p])} :
           p \in DOMAIN sd.priceLevels_}
HeldIds(sd) == LadderIds(sd) \cup DOMAIN sd.orders_
ActiveHeld(sd, ords) == {id \in HeldIds(sd) : isActive(ords[id])}

\* OrderBook::executeTrade, with the audit fields of the trade
executeTrade(st, aggressorId, restingId, price, quantity) ==
    LET a == st.orders[aggressorId]
        r == st.orders[restingId]
        opp == IF isBuyOrder(a) THEN st.ask ELSE st.bid
    IN [buyOrderId |-> IF isBuyOrder(a) THEN aggressorId ELSE restingId,
        sellOrderId |-> IF isSellOrder(a) THEN aggressorId ELSE restingId,
        price |-> price,
        quantity |-> quantity,
        aggressor |-> aggressorId,
        resting |-> restingId,
        aggressorRemaining |-> a.remainingQuantity_,
        restingRemaining |-> r.remainingQuantity_,
        oppositeActive |-> ActiveHeld(opp, st.orders)]

\* one trade of the matching loops: executeTrade, fillQuantity on both
\* orders, removeOrder of the resting order when it is filled
ApplyTrade(st, id, g) ==
    LET order == st.orders[id]
        bestOpposite == st.orders[g.best]
        st1 == IF isBuyOrder(order) THEN [st EXCEPT !.ask = g.side]
                                    ELSE [st EXCEPT !.bid = g.side]
        Filled(tradeQty, trade, o2, b2, opp2) ==
            [orders |-> [st.orders EXCEPT ![id] = o2, ![g.best] = b2],
             bid |-> IF isBuyOrder(order) THEN st.bid ELSE opp2,
             ask |-> IF isBuyOrder(order) THEN opp2 ELSE st.ask,
             trades |-> Append(st.trades, trade),
             traded |-> [st.traded EXCEPT ![id] = @ + tradeQty, ![g.best] = @ + tradeQty]]
        Remove(tradeQty, trade, o2, b2) ==
            Filled(tradeQty, trade, o2, b2,
                   IF isFilled(b2) THEN SideRemoveOrder(g.side, g.best).side ELSE g.side)
        Trade(tradePrice, tradeQty) ==
            Remove(tradeQty, executeTrade(st1, id, g.best, tradePrice, tradeQty),
                   fillQuantity(order, tradeQty), fillQuantity(bestOpposite, tradeQty))
    IN Trade(tradePriceOf(order, bestOpposite),
             Min(order.remainingQuantity_, bestOpposite.remainingQuantity_))

\* OrderBook::matchLimitOrder
RECURSIVE matchLimitOrder(_, _)
matchLimitOrder(st, id) ==
    LET order == st.orders[id]
        oppName == IF isBuyOrder(order) THEN "Sell" ELSE "Buy"
        Popped(g) == IF isBuyOrder(order) THEN [st EXCEPT !.ask = g.side]
                                          ELSE [st EXCEPT !.bid = g.side]
        Step(g) ==
            IF g.best = NoOrder \/ ~isActive(st.orders[g.best])
            THEN Popped(g)
            ELSE IF ~canMatch(IF isBuyOrder(order) THEN order.price_
                                                   ELSE st.orders[g.best].price_,
                              IF isBuyOrder(order) THEN st.orders[g.best].price_
                                                   ELSE order.price_)
            THEN Popped(g)
            ELSE matchLimitOrder(ApplyTrade(st, id, g), id)
    IN IF ~(isActive(order) /\ order.remainingQuantity_ > 0)
       THEN st
       ELSE Step(getBestOrder(IF isBuyOrder(order) THEN st.ask ELSE st.bid,
                              oppName, st.orders))

\* OrderBook::matchMarketOrder
RECURSIVE matchMarketOrder(_, _)
matchMarketOrder(st, id) ==
    LET order == st.orders[id]
        oppName == IF isBuyOrder(order) THEN "Sell" ELSE "Buy"
        Popped(g) == IF isBuyOrder(order) THEN [st EXCEPT !.ask = g.side]
                                          ELSE [st EXCEPT !.bid = g.side]
        Step(g) ==
            IF g.best = NoOrder \/ ~isActive(st.orders[g.best])
            THEN [Popped(g) EXCEPT !.orders[id] = setStatus(order, "Rejected")]
            ELSE matchMarketOrder(ApplyTrade(st, id, g), id)
    IN IF ~(isActive(order) /\ order.remainingQuantity_ > 0)
       THEN st
       ELSE Step(getBestOrder(IF isBuyOrder(order) THEN st.ask ELSE st.bid,
                              oppName, st.orders))

\* OrderBook::matchOrder
matchOrder(st, id) ==
    IF isMarketOrder(st.orders[id])
    THEN matchMarketOrder(st, id)
    ELSE matchLimitOrder(st, id)

\* OrderBook::addOrder (the order is already on the heap): match, then rest
\* the remainder on the order's own side.
addOrder(st, id) ==
    LET Rest(m) ==
            IF isActive(m.orders[id]) /\ m.orders[id].remainingQuantity_ > 0
            THEN IF isBuyOrder(m.orders[id])
                 THEN [m EXCEPT !.bid = SideAddOrder(m.bid, "Buy", m.orders[id])]
                 ELSE [m EXCEPT !.ask = SideAddOrder(m.ask, "Sell", m.orders[id])]
            ELSE m
    IN Rest(matchOrder([st EXCEPT !.trades = <<>>], id))

\* OrderBook::cancelOrder: bid side first, then ask side
cancelOrder(st, orderId) ==
    IF SideFindOrder(st.bid, orderId) # NoOrder
    THEN [st |-> [st EXCEPT !.orders[orderId] = setStatus(@, "Cancelled"),
                            !.bid = SideRemoveOrder(st.bid, orderId).side],
          ok |-> TRUE]
    ELSE IF SideFindOrder(st.ask, orderId) # NoOrder
    THEN [st |-> [st EXCEPT !.orders[orderId] = setStatus(@, "Cancelled"),
                            !.ask = SideRemoveOrder(st.ask, orderId).side],
          ok |-> TRUE]
    ELSE [st |-> st, ok |-> FALSE]

\* OrderBook::findOrder
findOrderInBook(st, orderId) ==
    IF SideFindOrder(st.bid, orderId) # NoOrder
    THEN orderId
    ELSE SideFindOrder(st.ask, orderId)

\* OrderBook::getTotalOrderCount
getTotalOrderCount(st) == getOrderCount(st.bid) + getOrderCount(st.ask)

\* the book state held in the variables
BookState ==
    [orders |-> orders, bid |-> bidSide_, ask |-> askSide_,
     trades |-> lastTrades, traded |-> tradedQty]

\* audit: ranks of insertion into a book side
Stamp(oldBook, newBook, stamps) ==
    LET held == HeldIds(newBook.bid) \cup HeldIds(newBook.ask)
        fresh == held \ DOMAIN stamps
    IN [x \in (DOMAIN stamps) \cup fresh |->
            IF x \in DOMAIN stamps THEN stamps[x] ELSE Cardinality(DOMAIN stamps) + 1]

SetBook(st) ==
    /\ orders' = st.orders
    /\ bidSide_' = st.bid
    /\ askSide_' = st.ask
    /\ lastTrades' = st.trades
    /\ tradedQty' = st.traded
    /\ addedAt' = Stamp(BookState, st, addedAt)

\* ------------------------------------------------------------------------
\* The state after construction, and SpecBook: a test harness creates orders
\* with fresh ids and calls OrderBook::addOrder / OrderBook::cancelOrder
\* ------------------------------------------------------------------------
\* FixSession::FixSession(senderCompID, targetCompID): the timers are set
\* by updateHeartbeatTimers()
NewFixSession(targetCompID, t) ==
    [state_ |-> "Disconnected",
     senderCompID_ |-> LocalCompID,
     targetCompID_ |-> targetCompID,
     outgoingSeqNum_ |-> 1,
     expectedIncomingSeqNum_ |-> 1,
     heartbeatInterval_ |-> 30,
     lastHeartbeat_ |-> t,
     lastReceivedMessage_ |-> t]

InitSession(targetCompID) ==
    /\ fixSession = NewFixSession(targetCompID, 0)
    /\ messagesReceived_ = 0
    /\ outbox = <<>>
    /\ forwarded = <<>>
    /\ now = 0
    /\ lastIn = [flip |-> FALSE, call |-> "none", msg |-> <<>>, sendOk |-> FALSE,
                 ok |-> FALSE, errors |-> {}]
    /\ lastInboundAt = 0
    /\ lastOutboundAt = 0

\* a FixMessage holding the fields, nothing serialized or parsed yet
InitCodec(fields) ==
    /\ fields_ = fields
    /\ rawMessage = <<>>
    /\ tampered = FALSE
    /\ parsed = [call |-> "none", ok |-> FALSE, fields |-> EmptyFn]

\* no connection was accepted, no order submitted, no report sent
InitRoute ==
    /\ connection = [c \in Clients |-> 0]
    /\ submittedBy = EmptyFn
    /\ lastReport = NoReport

\* no thread is inside the engine and every mutex is free
InitLocks(policy) ==
    /\ lockProgram = [t \in LockThreads |-> <<>>]
    /\ lockOp = [t \in LockThreads |-> "none"]
    /\ owners = [l \in Mutexes |-> {}]
    /\ writerPriority = policy

InitLifecycle ==
    /\ systemRunning_ = FALSE
    /\ stopPc = [t \in StopThreads |-> [pc |-> "idle", calls |-> 0]]
    /\ processingThread_ = "none"
    /\ joinCalls = 0
    /\ stopFault = FALSE

InitProgram ==
    /\ orders = EmptyFn
    /\ bidSide_ = EmptySide
    /\ askSide_ = EmptySide
    /\ lastTrades = <<>>
    /\ tradedQty = EmptyFn
    /\ addedAt = EmptyFn
    /\ lastOp = [op |-> "none", id |-> NoOrder, ok |-> FALSE, thread |-> "none",
                 wrote |-> FALSE]
    /\ running_ = FALSE
    /\ liveWorkers = 0
    /\ incomingMessages_ = <<>>
    /\ orderBooks_ = {}
    /\ orderSymbolMap_ = EmptyFn
    /\ reports = <<>>
    /\ requests = 0
    /\ pending = [worker |-> NoOrder, caller |-> NoOrder]
    /\ sessions_ = EmptyFn
    /\ g_msgSeqNum = 1
    /\ sent = [c \in Clients |-> <<>>]
    /\ orderMappings_ = EmptyFn
    /\ nextOrderId_ = 1

Init ==
    /\ InitProgram
    /\ InitLifecycle
    /\ InitSession(NoCompID)
    /\ InitCodec(EmptyFn)
    /\ InitLocks(FALSE)
    /\ InitRoute

\* the harness creates an order with a time in force and calls
\* OrderBook::addOrder
BookAddOrderTif(side, orderType, price, quantity, timeInForce) ==
    LET id == Cardinality(DOMAIN orders) + 1
        o == NewOrderTif(id, side, orderType, price, quantity, timeInForce)
        st0 == [BookState EXCEPT !.orders = MapPut(orders, id, o),
                                 !.traded = MapPut(tradedQty, id, 0)]
    IN /\ id \in OrderIds
       /\ \E st \in {addOrder(st0, id)} : SetBook(st)
       /\ lastOp' = [op |-> "add", id |-> id, ok |-> TRUE, thread |-> "caller",
                     wrote |-> TRUE]
       /\ UNCHANGED <<engineVars, gatewayVars, auxVars>>

BookAddOrder(side, orderType, price, quantity) ==
    LET id == Cardinality(DOMAIN orders) + 1
        o == NewOrder(id, side, orderType, price, quantity)
        st0 == [BookState EXCEPT !.orders = MapPut(orders, id, o),
                                 !.traded = MapPut(tradedQty, id, 0)]
    IN /\ id \in OrderIds
       /\ \E st \in {addOrder(st0, id)} : SetBook(st)
       /\ lastOp' = [op |-> "add", id |-> id, ok |-> TRUE, thread |-> "caller",
                     wrote |-> TRUE]
       /\ UNCHANGED <<engineVars, gatewayVars, auxVars>>

BookCancelOrder(orderId) ==
    \E r \in {cancelOrder([BookState EXCEPT !.trades = <<>>], orderId)} :
       /\ SetBook(r.st)
       /\ lastOp' = [op |-> "cancel", id |-> orderId, ok |-> r.ok, thread |-> "caller",
                     wrote |-> r.ok]
       /\ UNCHANGED <<engineVars, gatewayVars, auxVars>>

NextBook ==
    \/ \E side \in Sides, price \in Prices, quantity \in Quantities :
          BookAddOrder(side, "Limit", price, quantity)
    \/ \E side \in Sides, quantity \in Quantities :
          BookAddOrder(side, "Market", 0, quantity)
    \/ \E orderId \in OrderIds : BookCancelOrder(orderId)

SpecBook == Init /\ [][NextBook]_vars

\* SpecTif: the same harness with immediate-or-cancel and fill-or-kill orders
\* (SpecBook has the Day orders)
NextTif ==
    \/ \E side \in Sides, price \in Prices, quantity \in Quantities,
          timeInForce \in ImmediateTifs :
          BookAddOrderTif(side, "Limit", price, quantity, timeInForce)
    \/ \E side \in Sides, quantity \in Quantities, timeInForce \in ImmediateTifs :
          BookAddOrderTif(side, "Market", 0, quantity, timeInForce)
    \/ \E orderId \in OrderIds : BookCancelOrder(orderId)

SpecTif == Init /\ [][NextTif]_vars

\* ------------------------------------------------------------------------
\* MatchingEngine  (matching_engine.h / matching_engine.cpp)
\* An engine state is [book, orderBooks_, orderSymbolMap_]; book is the book
\* state of Symbol.
\* ------------------------------------------------------------------------
\* risk parameters, set with setMaxOrderPrice / setMaxOrderQuantity /
\* setMaxOrdersPerSymbol: the price limit is the highest price of Prices, the
\* quantity limit the highest quantity of Quantities
enableRiskCheck_ == TRUE
maxOrderPrice_ == SetMax(Prices)
maxOrderQuantity_ == SetMax(Quantities)
maxOrdersPerSymbol_ == 2

\* the limit prices the engine's callers choose from: one is above the limit
EnginePrices == Prices \cup {maxOrderPrice_ + 1}

\* a default-constructed Order ("auto dummyOrder = std::make_shared<Order>()")
DummyOrder ==
    [orderId_ |-> 0, symbol_ |-> "", side_ |-> "Buy", orderType_ |-> "Limit",
     price_ |-> 0, quantity_ |-> 0, remainingQuantity_ |-> 0, status_ |-> "New",
     timeInForce_ |-> "Day"]

\* ExecutionReport::ExecutionReport(const Order&)
ExecutionReport(order) ==
    [orderId |-> order.orderId_,
     counterOrderId |-> 0,
     originalQuantity |-> order.quantity_,
     filledQuantity |-> getFilledQuantity(order),
     remainingQuantity |-> order.remainingQuantity_,
     executionPrice |-> 0,
     executionQuantity |-> 0,
     status |-> order.status_,
     rejectReason |-> ""]

\* MatchingEngine::createExecutionReport
createExecutionReport(order, status, rejectReason) ==
    [ExecutionReport(order) EXCEPT !.status = status, !.rejectReason = rejectReason]

\* Order::isValid
isValid(o) ==
    /\ ~(o.orderId_ = 0 \/ o.symbol_ = "" \/ o.quantity_ = 0)
    /\ ~(o.orderType_ = "Limit" /\ o.price_ <= 0)
    /\ ~(o.orderType_ = "Market" /\ o.price_ # 0)
    /\ ~(o.remainingQuantity_ > o.quantity_)

\* MatchingEngine::validateOrderBasic: "" when the order passes, else the
\* reject reason
validateOrderBasic(o) ==
    IF ~isValid(o) THEN "Invalid order structure"
    ELSE IF o.symbol_ = "" THEN "Empty symbol"
    ELSE IF o.quantity_ = 0 THEN "Zero quantity"
    ELSE IF isLimitOrder(o) /\ o.price_ <= 0 THEN "Invalid price for limit order"
    ELSE ""

\* MatchingEngine::validateOrderPrice
validateOrderPrice(o) ==
    IF isLimitOrder(o) /\ o.price_ > maxOrderPrice_
    THEN "Order price exceeds maximum limit"
    ELSE ""

\* MatchingEngine::validateOrderSize
validateOrderSize(o) ==
    IF o.quantity_ > maxOrderQuantity_
    THEN "Order quantity exceeds maximum limit"
    ELSE ""

validateSymbolLimits_Pass(es, symbol) == ""

\* MatchingEngine::validateSymbolLimits
validateSymbolLimits(es, symbol) ==
    IF symbol \in es.orderBooks_ /\ getTotalOrderCount(es.book) >= maxOrdersPerSymbol_
    THEN "Symbol exceeds maximum order limit"
    ELSE ""

\* MatchingEngine::performRiskCheck
performRiskCheck(es, o) ==
    LET Check(price, size) ==
            IF price # "" THEN price
            ELSE IF size # "" THEN size
            ELSE validateSymbolLimits(es, o.symbol_)
    IN Check(validateOrderPrice(o), validateOrderSize(o))

\* MatchingEngine::findOrder
findOrder(es, orderId) ==
    IF orderId \notin DOMAIN es.orderSymbolMap_
    THEN NoOrder
    ELSE IF es.orderSymbolMap_[orderId] \in es.orderBooks_
    THEN findOrderInBook(es.book, orderId)
    ELSE NoOrder

\* the checks of MatchingEngine::processNewOrder (validateOrderBasic, then
\* performRiskCheck when enabled): "" when the order passes, else the reason
checkNewOrder(es, id) ==
    LET Checked(basic, risk) ==
            IF basic # "" THEN basic
            ELSE IF enableRiskCheck_ /\ risk # "" THEN risk
            ELSE ""
    IN Checked(validateOrderBasic(es.book.orders[id]),
               performRiskCheck(es, es.book.orders[id]))

\* the early returns of MatchingEngine::processNewOrder: a Rejected report,
\* nothing written
rejectNewOrder(es, id, reason) ==
    [es |-> es,
     report |-> createExecutionReport(es.book.orders[id], "Rejected", reason),
     wrote |-> FALSE]

\* MatchingEngine::processNewOrder after the checks: getOrCreateOrderBook,
\* orderSymbolMap_, OrderBook::addOrder, the report
addCheckedOrder(es, id) ==
    LET order == es.book.orders[id]
        Reported(after, report, lastTrade) ==
            [es |-> [book |-> after,
                     orderBooks_ |-> es.orderBooks_ \cup {order.symbol_},
                     orderSymbolMap_ |-> MapPut(es.orderSymbolMap_, id, order.symbol_)],
             report |-> IF after.trades # <<>>
                        THEN [report EXCEPT
                                 !.executionPrice = lastTrade.price,
                                 !.executionQuantity = lastTrade.quantity,
                                 !.counterOrderId = IF isBuyOrder(after.orders[id])
                                                    THEN lastTrade.sellOrderId
                                                    ELSE lastTrade.buyOrderId]
                        ELSE report,
             wrote |-> TRUE]
        Added(after) ==
            Reported(after,
                     createExecutionReport(after.orders[id], after.orders[id].status_, ""),
                     after.trades[Len(after.trades)])
    IN Added(addOrder(es.book, id))

\* MatchingEngine::processNewOrder: the engine state after the call, the one
\* report it returns, and whether the book was written
processNewOrder(es, id) ==
    LET Checked(reason) ==
            IF reason # ""
            THEN rejectNewOrder(es, id, reason)
            ELSE addCheckedOrder(es, id)
    IN Checked(checkNewOrder(es, id))

\* MatchingEngine::processCancelOrder
processCancelOrder(es, orderId, reason) ==
    LET Cancel(found, r) ==
          IF found = NoOrder
       THEN [es |-> es,
             report |-> createExecutionReport(DummyOrder, "Rejected", "Order not found"),
             wrote |-> FALSE]
       ELSE IF es.book.orders[found].symbol_ \notin es.orderBooks_
       THEN [es |-> es,
             report |-> createExecutionReport(es.book.orders[found], "Rejected",
                                              "OrderBook not found"),
             wrote |-> FALSE]
       ELSE IF r.ok
       THEN [es |-> [es EXCEPT !.book = r.st,
                               !.orderSymbolMap_ = MapErase(@, orderId)],
             report |-> createExecutionReport(r.st.orders[orderId], "Cancelled", reason),
             wrote |-> TRUE]
       ELSE [es |-> [es EXCEPT !.book = r.st],
             report |-> createExecutionReport(r.st.orders[orderId], "Rejected",
                                              "Failed to cancel order"),
             wrote |-> FALSE]
    IN Cancel(findOrder(es, orderId),
              cancelOrder([es.book EXCEPT !.trades = <<>>], orderId))

\* MatchingEngine::processModifyOrder: the cancel, and nothing is re-inserted
processModifyOrder(es, orderId, newPrice, newQuantity) ==
    processCancelOrder(es, orderId, "Modify order")

\* InternalMessage::createNewOrder / createCancelOrder / createModifyOrder
createNewOrder(id) ==
    [type |-> "NewOrder", order |-> id, targetOrderId |-> NoOrder,
     newPrice |-> 0, newQuantity |-> 0]
createCancelOrder(orderId) ==
    [type |-> "CancelOrder", order |-> NoOrder, targetOrderId |-> orderId,
     newPrice |-> 0, newQuantity |-> 0]
createModifyOrder(orderId, price, qty) ==
    [type |-> "ModifyOrder", order |-> NoOrder, targetOrderId |-> orderId,
     newPrice |-> price, newQuantity |-> qty]

\* MatchingEngine::processInternalMessage
processInternalMessage(es, message) ==
    IF message.type = "NewOrder"
    THEN processNewOrder(es, message.order)
    ELSE IF message.type = "CancelOrder"
    THEN processCancelOrder(es, message.targetOrderId, "User requested")
    ELSE processModifyOrder(es, message.targetOrderId, message.newPrice,
                            message.newQuantity)

QueueFront_Back(q) == q[Len(q)]

\* std::queue::front of incomingMessages_
QueueFront(q) == Head(q)

\* the engine state held in the variables
EngineState ==
    [book |-> BookState, orderBooks_ |-> orderBooks_, orderSymbolMap_ |-> orderSymbolMap_]

\* a processing result written back; thread is the thread that ran the
\* processing function, wrote whether it changed the book or the order index
SetEngine(r, op, id, thread) ==
    /\ SetBook(r.es.book)
    /\ orderBooks_' = r.es.orderBooks_
    /\ orderSymbolMap_' = r.es.orderSymbolMap_
    /\ reports' = Append(reports, r.report)
    /\ lastOp' = [op |-> IF op = "add" /\ ~r.wrote THEN "reject" ELSE op,
                  id |-> id,
                  ok |-> r.wrote,
                  thread |-> thread,
                  wrote |-> r.wrote]

\* the caller's "std::make_shared<Order>(generateOrderId(), ...)"
WithNewOrder(es, id, o) ==
    [es EXCEPT !.book.orders = MapPut(@, id, o),
               !.book.traded = MapPut(@, id, 0)]

\* MatchingEngine::start
Start ==
    /\ ~running_
    /\ running_' = TRUE
    /\ liveWorkers' = liveWorkers + 1
    /\ UNCHANGED <<bookVars, incomingMessages_, orderBooks_, orderSymbolMap_,
                   reports, requests>>
    /\ UNCHANGED <<pending, gatewayVars, auxVars>>

\* MatchingEngine::stop: the flag is cleared, the worker leaves its loop and
\* is joined; the queue keeps what it holds
Stop ==
    /\ running_
    /\ running_' = FALSE
    /\ liveWorkers' = 0
    /\ UNCHANGED <<bookVars, incomingMessages_, orderBooks_, orderSymbolMap_,
                   reports, requests>>
    /\ UNCHANGED <<pending, gatewayVars, auxVars>>

\* MatchingEngine::submitOrder with an order the caller just created, the
\* run creating at most maxId orders
SubmitOrderUpTo(maxId, side, orderType, price, quantity) ==
    LET id == Cardinality(DOMAIN orders) + 1
        o == NewOrder(id, side, orderType, price, quantity)
    IN /\ id <= maxId
       /\ Len(incomingMessages_) < MaxQueue
       /\ running_
       /\ orders' = MapPut(orders, id, o)
       /\ tradedQty' = MapPut(tradedQty, id, 0)
       /\ incomingMessages_' = Append(incomingMessages_, createNewOrder(id))
       /\ UNCHANGED <<bidSide_, askSide_, lastTrades, addedAt, lastOp, running_,
                      liveWorkers, orderBooks_, orderSymbolMap_, reports, requests>>
       /\ UNCHANGED <<pending, gatewayVars, auxVars>>

SubmitOrder(side, orderType, price, quantity) ==
    SubmitOrderUpTo(MaxEngineOrders, side, orderType, price, quantity)

\* MatchingEngine::cancelOrder
CancelOrder(orderId) ==
    /\ requests < MaxRequests
    /\ Len(incomingMessages_) < MaxQueue
    /\ running_
    /\ requests' = requests + 1
    /\ incomingMessages_' = Append(incomingMessages_, createCancelOrder(orderId))
    /\ UNCHANGED <<bookVars, running_, liveWorkers, orderBooks_, orderSymbolMap_,
                   reports>>
    /\ UNCHANGED <<pending, gatewayVars, auxVars>>

\* MatchingEngine::modifyOrder
ModifyOrder(orderId, newPrice, newQuantity) ==
    /\ requests < MaxRequests
    /\ Len(incomingMessages_) < MaxQueue
    /\ running_
    /\ requests' = requests + 1
    /\ incomingMessages_' =
          Append(incomingMessages_, createModifyOrder(orderId, newPrice, newQuantity))
    /\ UNCHANGED <<bookVars, running_, liveWorkers, orderBooks_, orderSymbolMap_,
                   reports>>
    /\ UNCHANGED <<pending, gatewayVars, auxVars>>

\* one iteration of MatchingEngine::processingLoop: pop the front message,
\* process it, hand the report to notifyExecution
ProcessingLoop ==
    /\ running_
    /\ liveWorkers > 0
    /\ incomingMessages_ # <<>>
    /\ LET message == QueueFront(incomingMessages_)
       IN \E r \in {processInternalMessage(EngineState, message)} :
             SetEngine(r, IF message.type = "NewOrder" THEN "add"
                          ELSE IF message.type = "CancelOrder" THEN "cancel"
                          ELSE "modify",
                       IF message.type = "NewOrder" THEN message.order
                       ELSE message.targetOrderId, "worker")
    /\ incomingMessages_' = Tail(incomingMessages_)
    /\ UNCHANGED <<running_, liveWorkers, requests>>
    /\ UNCHANGED <<pending, gatewayVars, auxVars>>

\* MatchingEngine::processOrderSync with an order the caller just created:
\* processNewOrder runs on the caller's thread
ProcessOrderSync(side, orderType, price, quantity) ==
    LET id == Cardinality(DOMAIN orders) + 1
        o == NewOrder(id, side, orderType, price, quantity)
    IN /\ id <= MaxEngineOrders
       /\ \E r \in {processNewOrder(WithNewOrder(EngineState, id, o), id)} :
             SetEngine(r, "add", id, "caller")
       /\ UNCHANGED <<running_, liveWorkers, incomingMessages_, requests>>
       /\ UNCHANGED <<pending, gatewayVars, auxVars>>

\* MatchingEngine::cancelOrderSync: processCancelOrder runs on the caller's
\* thread
CancelOrderSync(orderId) ==
    /\ requests < MaxRequests
    /\ requests' = requests + 1
    /\ \E r \in {processCancelOrder(EngineState, orderId, "User requested")} :
          SetEngine(r, "cancel", orderId, "caller")
    /\ UNCHANGED <<running_, liveWorkers, incomingMessages_>>
    /\ UNCHANGED <<pending, gatewayVars, auxVars>>

Next ==
    \/ Start
    \/ Stop
    \/ \E side \in Sides, price \in EnginePrices, quantity \in Quantities :
          SubmitOrder(side, "Limit", price, quantity)
    \/ \E side \in Sides, quantity \in Quantities :
          SubmitOrder(side, "Market", 0, quantity)
    \/ \E orderId \in OrderIds : CancelOrder(orderId)
    \/ \E orderId \in OrderIds :
          ModifyOrder(orderId, maxOrderPrice_, maxOrderQuantity_)
    \/ ProcessingLoop
    \/ \E side \in Sides, price \in EnginePrices, quantity \in Quantities :
          ProcessOrderSync(side, "Limit", price, quantity)
    \/ \E side \in Sides, quantity \in Quantities :
          ProcessOrderSync(side, "Market", 0, quantity)
    \/ \E orderId \in OrderIds : CancelOrderSync(orderId)

Spec == Init /\ [][Next]_vars

\* ------------------------------------------------------------------------
\* SpecRisk: new orders only, up to MaxOrders of them, with processNewOrder
\* in the two steps another thread can come between: the checks (the risk
\* check reads the book's order count under the shared orderBooksMutex_),
\* then the insertion (OrderBook::addOrder under the book's mutex).  The
\* worker runs it for queued orders, a caller for processOrderSync.
\* ------------------------------------------------------------------------
\* the limit prices of SpecRisk: one within the price limit, one above it
RiskPrices == {SetMin(Prices), maxOrderPrice_ + 1}

\* processingLoop pops a new order and runs the checks of processNewOrder
WorkerCheck ==
    /\ running_
    /\ liveWorkers > 0
    /\ incomingMessages_ # <<>>
    /\ pending.worker = NoOrder
    /\ QueueFront(incomingMessages_).type = "NewOrder"
    /\ LET id == QueueFront(incomingMessages_).order
       IN \E reason \in {checkNewOrder(EngineState, id)} :
             IF reason # ""
             THEN /\ SetEngine(rejectNewOrder(EngineState, id, reason), "add", id,
                               "worker")
                  /\ UNCHANGED pending
             ELSE /\ pending' = [pending EXCEPT !.worker = id]
                  /\ UNCHANGED <<bookVars, orderBooks_, orderSymbolMap_, reports>>
    /\ incomingMessages_' = Tail(incomingMessages_)
    /\ UNCHANGED <<running_, liveWorkers, requests, gatewayVars, auxVars>>

\* the worker inserts the order it checked and hands the report to
\* notifyExecution
WorkerAdd ==
    /\ pending.worker # NoOrder
    /\ \E r \in {addCheckedOrder(EngineState, pending.worker)} :
          SetEngine(r, "add", pending.worker, "worker")
    /\ pending' = [pending EXCEPT !.worker = NoOrder]
    /\ UNCHANGED <<running_, liveWorkers, incomingMessages_, requests, gatewayVars, auxVars>>

\* MatchingEngine::processOrderSync with an order the caller just created:
\* the checks of processNewOrder on the caller's thread
SyncCheck(side, orderType, price, quantity) ==
    LET id == Cardinality(DOMAIN orders) + 1
        o == NewOrder(id, side, orderType, price, quantity)
    IN /\ id <= MaxOrders
       /\ pending.caller = NoOrder
       /\ \E reason \in {checkNewOrder(WithNewOrder(EngineState, id, o), id)} :
             IF reason # ""
             THEN /\ SetEngine(rejectNewOrder(WithNewOrder(EngineState, id, o), id,
                                              reason), "add", id, "caller")
                  /\ UNCHANGED pending
             ELSE /\ orders' = MapPut(orders, id, o)
                  /\ tradedQty' = MapPut(tradedQty, id, 0)
                  /\ pending' = [pending EXCEPT !.caller = id]
                  /\ UNCHANGED <<bidSide_, askSide_, lastTrades, addedAt, lastOp,
                                 orderBooks_, orderSymbolMap_, reports>>
       /\ UNCHANGED <<running_, liveWorkers, incomingMessages_, requests, gatewayVars, auxVars>>

\* processOrderSync inserts the order it checked and returns the report
SyncAdd ==
    /\ pending.caller # NoOrder
    /\ \E r \in {addCheckedOrder(EngineState, pending.caller)} :
          SetEngine(r, "add", pending.caller, "caller")
    /\ pending' = [pending EXCEPT !.caller = NoOrder]
    /\ UNCHANGED <<running_, liveWorkers, incomingMessages_, requests, gatewayVars, auxVars>>

NextRisk ==
    \/ Start
    \/ \E side \in Sides, price \in RiskPrices :
          SubmitOrderUpTo(MaxOrders, side, "Limit", price, SetMin(Quantities))
    \/ WorkerCheck
    \/ WorkerAdd
    \/ \E side \in Sides, price \in RiskPrices :
          SyncCheck(side, "Limit", price, SetMin(Quantities))
    \/ SyncAdd

SpecRisk == Init /\ [][NextRisk]_vars

\* ------------------------------------------------------------------------
\* FixMessage / FixSession / TradingSystem  (fix_message.cpp, fix_session.cpp,
\* trading_system.cpp)
\* A gateway state is [sessions_, g_msgSeqNum, sent, orderMappings_,
\* nextOrderId_].  A FIX message is [msgType, MsgSeqNum] (tags 35 and 34).
\* ------------------------------------------------------------------------
\* a message without tag 34
NoField == 0

\* FixMessage::isAdminMessage: Heartbeat, TestRequest, Logon, Logout
isAdminMessage(msgType) == msgType \in {"0", "1", "A", "5"}

\* FixSession::FixSession as TradingSystem::handleNewConnection creates it
NewSession ==
    [state_ |-> "Disconnected", outgoingSeqNum_ |-> 1, expectedIncomingSeqNum_ |-> 1]

\* FixMessage::FixMessage(char msgType): tag 34 is drawn from g_msgSeqNum
FixMessageCtor(gs, msgType) ==
    [gs |-> [gs EXCEPT !.g_msgSeqNum = @ + 1],
     msg |-> [msgType |-> msgType, MsgSeqNum |-> gs.g_msgSeqNum]]

\* FixSession::sendMessage: tag 34 is assigned from outgoingSeqNum_ only when
\* the message has none; the bytes go to the session's send function
sendMessage(gs, c, msg) ==
    IF msg.MsgSeqNum = NoField
    THEN [gs EXCEPT !.sessions_[c].outgoingSeqNum_ = @ + 1,
                    !.sent[c] = Append(@, [msg EXCEPT !.MsgSeqNum =
                                               gs.sessions_[c].outgoingSeqNum_])]
    ELSE [gs EXCEPT !.sent[c] = Append(@, msg)]

\* the admin senders of FixSession (sendLogonResponse, sendHeartbeat,
\* sendResendRequest, the Logout reply): build the message, set tag 34 to
\* getNextOutgoingSeqNum(), sendAdminMessage
sendAdminMessage(gs, c, msgType) ==
    LET Built(b) ==
            sendMessage([b.gs EXCEPT !.sessions_[c].outgoingSeqNum_ = @ + 1], c,
                        [b.msg EXCEPT !.MsgSeqNum = b.gs.sessions_[c].outgoingSeqNum_])
    IN Built(FixMessageCtor(gs, msgType))

\* FixSession::validateSequenceNumber: a duplicate is dropped, a gap sends a
\* ResendRequest and the message is processed
validateSequenceNumber(gs, c, seqNum) ==
    IF seqNum = gs.sessions_[c].expectedIncomingSeqNum_
    THEN [gs |-> gs, ok |-> TRUE]
    ELSE IF seqNum < gs.sessions_[c].expectedIncomingSeqNum_
    THEN [gs |-> gs, ok |-> FALSE]
    ELSE [gs |-> sendAdminMessage(gs, c, "2"), ok |-> TRUE]

\* FixSession::handleLogon (accept answers with sendLogonResponse)
handleLogon(gs, c) ==
    IF gs.sessions_[c].state_ = "PendingLogon"
    THEN [gs EXCEPT !.sessions_[c].state_ = "LoggedIn"]
    ELSE IF gs.sessions_[c].state_ = "Disconnected"
    THEN sendAdminMessage([gs EXCEPT !.sessions_[c].state_ = "LoggedIn"], c, "A")
    ELSE gs

\* FixSession::handleLogout
handleLogout(gs, c) ==
    IF gs.sessions_[c].state_ = "PendingLogout"
    THEN [gs EXCEPT !.sessions_[c].state_ = "LoggedOut"]
    ELSE IF gs.sessions_[c].state_ = "LoggedIn"
    THEN [sendAdminMessage(gs, c, "5") EXCEPT !.sessions_[c].state_ = "LoggedOut"]
    ELSE gs

\* FixSession::handleTestRequest
handleTestRequest(gs, c) == sendAdminMessage(gs, c, "0")

\* FixSession::handleAdminMessage
handleAdminMessage(gs, c, msgType) ==
    IF msgType = "A" THEN handleLogon(gs, c)
    ELSE IF msgType = "5" THEN handleLogout(gs, c)
    ELSE IF msgType = "1" THEN handleTestRequest(gs, c)
    ELSE gs

\* TradingSystem::sendFixMessage: the message is serialized as it is and
\* handed to the TCP server
sendFixMessage(gs, c, msg) ==
    IF c \in DOMAIN gs.sessions_
    THEN [gs EXCEPT !.sent[c] = Append(@, msg)]
    ELSE gs

\* TradingSystem::sendOrderReject
sendOrderReject(gs, c) ==
    LET Built(b) == sendFixMessage(b.gs, c, b.msg)
    IN Built(FixMessageCtor(gs, "8"))

\* TradingSystem::handleNewOrderSingle: convertFixToOrder draws the order id
\* and stores the mapping; accepted is what MatchingEngine::submitOrder
\* returns
handleNewOrderSingle(gs, c, accepted) ==
    LET Converted(g1) == IF accepted THEN g1 ELSE sendOrderReject(g1, c)
    IN Converted([gs EXCEPT !.nextOrderId_ = @ + 1,
                            !.orderMappings_ = MapPut(@, gs.nextOrderId_, c)])

\* the loop of handleOrderCancelRequest over orderMappings_: the order id
\* mapped to this socket and ClOrdID, or 0
findMapping(gs, c, target) ==
    IF target \in DOMAIN gs.orderMappings_ /\ gs.orderMappings_[target] = c
    THEN target
    ELSE NoOrder

\* TradingSystem::handleOrderCancelRequest: target is the order the request's
\* OrigClOrdID names; accepted is what MatchingEngine::cancelOrder returns
handleOrderCancelRequest(gs, c, target, accepted) ==
    IF findMapping(gs, c, target) = NoOrder
    THEN sendOrderReject(gs, c)
    ELSE IF accepted THEN gs
    ELSE sendOrderReject(gs, c)

\* TradingSystem::handleFixApplicationMessage
handleFixApplicationMessage(gs, c, msgType, target, accepted) ==
    IF msgType = "D" THEN handleNewOrderSingle(gs, c, accepted)
    ELSE IF msgType = "F" THEN handleOrderCancelRequest(gs, c, target, accepted)
    ELSE gs

\* FixSession::processIncomingMessage
processIncomingMessage(gs, c, msgType, seqNum, target, accepted) ==
    LET Dispatch(g1) ==
            IF isAdminMessage(msgType)
            THEN handleAdminMessage(g1, c, msgType)
            ELSE IF g1.sessions_[c].state_ # "LoggedIn"
            THEN g1
            ELSE handleFixApplicationMessage(g1, c, msgType, target, accepted)
        Validated(v) ==
            IF ~v.ok
            THEN v.gs
            ELSE Dispatch([v.gs EXCEPT !.sessions_[c].expectedIncomingSeqNum_ = seqNum + 1])
    IN Validated(validateSequenceNumber(gs, c, seqNum))

\* TradingSystem::handleExecutionReport with convertReportToFix: the report
\* becomes a FixMessage('8') that goes out through sendFixMessage
handleExecutionReport(gs, orderId, status) ==
    LET Built(b) == sendFixMessage(b.gs, gs.orderMappings_[orderId], b.msg)
    IN IF orderId \notin DOMAIN gs.orderMappings_
       THEN gs
       ELSE Built(FixMessageCtor(
                [gs EXCEPT !.orderMappings_ =
                     IF status \in {"Filled", "Cancelled", "Rejected"}
                     THEN MapErase(@, orderId) ELSE @],
                "8"))

\* audit: the connection a mapping stored by convertFixToOrder belongs to
recordSubmitter(before, after, c) ==
    IF before.nextOrderId_ \in (DOMAIN after.orderMappings_) \ (DOMAIN before.orderMappings_)
    THEN MapPut(submittedBy, before.nextOrderId_,
                [socket |-> c, connection |-> connection[c]])
    ELSE submittedBy

\* audit: the socket handleExecutionReport sends the report of the order to,
\* and the connection that socket value stands for at that moment
recordReport(gs, orderId) ==
    IF orderId \in DOMAIN gs.orderMappings_
          /\ gs.orderMappings_[orderId] \in DOMAIN gs.sessions_
    THEN [orderId |-> orderId, socket |-> gs.orderMappings_[orderId],
          connection |-> connection[gs.orderMappings_[orderId]]]
    ELSE lastReport

\* the gateway state held in the variables
GatewayState ==
    [sessions_ |-> sessions_, g_msgSeqNum |-> g_msgSeqNum, sent |-> sent,
     orderMappings_ |-> orderMappings_, nextOrderId_ |-> nextOrderId_]

SetGateway(gs) ==
    /\ sessions_' = gs.sessions_
    /\ g_msgSeqNum' = gs.g_msgSeqNum
    /\ sent' = gs.sent
    /\ orderMappings_' = gs.orderMappings_
    /\ nextOrderId_' = gs.nextOrderId_

\* TradingSystem::handleNewConnection
HandleNewConnection(c) ==
    /\ c \notin DOMAIN sessions_
    /\ connection[c] < MaxConnections
    /\ sessions_' = MapPut(sessions_, c, NewSession)
    /\ sent' = [sent EXCEPT ![c] = <<>>]
    /\ connection' = [connection EXCEPT ![c] = @ + 1]
    /\ UNCHANGED <<offRoute, submittedBy, lastReport, bookVars, engineVars, g_msgSeqNum,
                   orderMappings_, nextOrderId_>>

\* TradingSystem::handleClientDisconnection (cleanupSession)
HandleClientDisconnection(c) ==
    /\ c \in DOMAIN sessions_
    /\ sessions_' = MapErase(sessions_, c)
    /\ UNCHANGED <<auxVars, bookVars, engineVars, g_msgSeqNum, sent, orderMappings_,
                   nextOrderId_>>

\* TradingSystem::handleClientMessage
HandleClientMessage(c, msgType, seqNum, target, accepted) ==
    /\ c \in DOMAIN sessions_
    /\ g_msgSeqNum < MaxSeq
    /\ msgType = "D" => nextOrderId_ <= MaxGatewayOrders
    /\ \E gs \in {processIncomingMessage(GatewayState, c, msgType, seqNum,
                                         target, accepted)} :
          /\ SetGateway(gs)
          /\ submittedBy' = recordSubmitter(GatewayState, gs, c)
    /\ UNCHANGED <<offRoute, connection, lastReport, bookVars, engineVars>>

\* the engine's execution callback: TradingSystem::handleExecutionReport
HandleExecutionReport(orderId, status) ==
    /\ orderId \in DOMAIN orderMappings_
    /\ g_msgSeqNum <= MaxSeq
    /\ \E gs \in {handleExecutionReport(GatewayState, orderId, status)} :
          SetGateway(gs)
    /\ lastReport' = recordReport(GatewayState, orderId)
    /\ UNCHANGED <<offRoute, connection, submittedBy, bookVars, engineVars>>

NextGateway ==
    \/ \E c \in Clients : HandleNewConnection(c)
    \/ \E c \in Clients : HandleClientDisconnection(c)
    \/ \E c \in Clients, msgType \in {"A", "5", "0", "1", "D", "F"},
          seqNum \in 1..MaxInSeq, target \in 1..MaxGatewayOrders,
          accepted \in BOOLEAN :
          HandleClientMessage(c, msgType, seqNum, target, accepted)
    \/ \E orderId \in 1..MaxGatewayOrders,
          status \in {"New", "PartiallyFilled", "Filled", "Cancelled", "Rejected"} :
          HandleExecutionReport(orderId, status)

SpecGateway == Init /\ [][NextGateway]_vars

\* ------------------------------------------------------------------------
\* SpecSystem: the gateway wired to the engine as TradingSystem::initialize
\* does.  Clients stay connected and send their messages in sequence; new
\* orders are limit orders; the engine's execution callback is
\* TradingSystem::handleExecutionReport.
\* ------------------------------------------------------------------------
\* TradingSystem::handleNewConnection once TradingSystem::start has started
\* the engine and then the TCP server
SystemNewConnection(c) ==
    /\ running_
    /\ HandleNewConnection(c)

\* TradingSystem::handleClientMessage for Logon, NewOrderSingle and
\* OrderCancelRequest, with the engine call the handler makes
\* (MatchingEngine::submitOrder / MatchingEngine::cancelOrder)
SystemClientMessage(c, msgType, side, price, quantity, target) ==
    /\ c \in DOMAIN sessions_
    /\ g_msgSeqNum <= MaxSeq
    /\ sessions_[c].expectedIncomingSeqNum_ <= MaxInSeq
    /\ msgType = "D" => nextOrderId_ <= MaxGatewayOrders
    /\ msgType = "F" => requests < MaxRequests
    /\ Len(incomingMessages_) < MaxQueue
    /\ \E gs \in {processIncomingMessage(GatewayState, c, msgType,
                                         sessions_[c].expectedIncomingSeqNum_,
                                         target, running_)} :
          /\ SetGateway(gs)
          /\ submittedBy' = recordSubmitter(GatewayState, gs, c)
    /\ requests' = IF msgType = "F" THEN requests + 1 ELSE requests
    /\ IF msgType = "D" /\ sessions_[c].state_ = "LoggedIn" /\ running_
       THEN /\ orders' = MapPut(orders, nextOrderId_,
                                NewOrder(nextOrderId_, side, "Limit", price, quantity))
            /\ tradedQty' = MapPut(tradedQty, nextOrderId_, 0)
            /\ incomingMessages_' = Append(incomingMessages_, createNewOrder(nextOrderId_))
       ELSE IF /\ msgType = "F" /\ sessions_[c].state_ = "LoggedIn" /\ running_
               /\ findMapping(GatewayState, c, target) # NoOrder
       THEN /\ incomingMessages_' = Append(incomingMessages_, createCancelOrder(target))
            /\ UNCHANGED <<orders, tradedQty>>
       ELSE UNCHANGED <<orders, tradedQty, incomingMessages_>>
    /\ UNCHANGED <<bidSide_, askSide_, lastTrades, addedAt, lastOp, running_,
                   liveWorkers, orderBooks_, orderSymbolMap_, reports, pending,
                   offRoute, connection, lastReport>>

\* one iteration of MatchingEngine::processingLoop whose notifyExecution
\* calls TradingSystem::handleExecutionReport
SystemProcessingLoop ==
    /\ running_
    /\ liveWorkers > 0
    /\ incomingMessages_ # <<>>
    /\ g_msgSeqNum <= MaxSeq
    /\ LET message == QueueFront(incomingMessages_)
       IN \E r \in {processInternalMessage(EngineState, message)} :
             /\ SetEngine(r, IF message.type = "NewOrder" THEN "add" ELSE "cancel",
                          IF message.type = "NewOrder" THEN message.order
                          ELSE message.targetOrderId, "worker")
             /\ \E gs \in {handleExecutionReport(GatewayState, r.report.orderId,
                                                  r.report.status)} : SetGateway(gs)
             /\ lastReport' = recordReport(GatewayState, r.report.orderId)
    /\ incomingMessages_' = Tail(incomingMessages_)
    /\ UNCHANGED <<running_, liveWorkers, requests, pending, offRoute, connection,
                   submittedBy>>

NextSystem ==
    \/ Start
    \/ \E c \in Clients : SystemNewConnection(c)
    \/ \E c \in Clients, msgType \in {"A", "D", "F"}, side \in Sides,
          target \in 1..MaxGatewayOrders :
          SystemClientMessage(c, msgType, side, SetMin(Prices), SetMin(Quantities), target)
    \/ SystemProcessingLoop

SpecSystem == Init /\ [][NextSystem]_vars

\* ------------------------------------------------------------------------
\* SpecLifecycle: main() starts the system once; main() (at "quit", and again
\* from the destructor) and the thread that runs signalHandler call
\* TradingSystem::stop, which calls MatchingEngine::stop. Each stop() is a
\* sequence of steps of its calling thread; callers submit orders and the
\* worker processes them meanwhile.
\* ------------------------------------------------------------------------
\* TradingSystem::start: initializeMatchingEngine (MatchingEngine::start sets
\* running_ and creates processingThread_), initializeTcpServer, running_ = true
LifeStart ==
    /\ processingThread_ = "none"
    /\ ~running_
    /\ running_' = TRUE
    /\ liveWorkers' = liveWorkers + 1
    /\ processingThread_' = "joinable"
    /\ systemRunning_' = TRUE
    /\ UNCHANGED <<bookVars, incomingMessages_, orderBooks_, orderSymbolMap_,
                   reports, requests, pending, gatewayVars>>
    /\ UNCHANGED <<stopPc, joinCalls, stopFault, offLifecycle>>

StopGoto(t, pc) == stopPc' = [stopPc EXCEPT ![t].pc = pc]

\* a thread enters TradingSystem::stop: "if (!running_.load()) return;"
SystemStopCheck(t) ==
    /\ stopPc[t].pc = "idle"
    /\ stopPc[t].calls < MaxStopCalls
    /\ processingThread_ # "none"
    /\ stopPc' = [stopPc EXCEPT ![t] =
                     [pc |-> IF systemRunning_ THEN "system_store" ELSE "idle",
                      calls |-> @.calls + 1]]
    /\ UNCHANGED <<bookVars, engineVars, gatewayVars>>
    /\ UNCHANGED <<systemRunning_, processingThread_, joinCalls, stopFault, offLifecycle>>

\* TradingSystem::stop: running_ = false; tcpServer_->stop();
\* cleanupResources()
SystemStopStore(t) ==
    /\ stopPc[t].pc = "system_store"
    /\ systemRunning_' = FALSE
    /\ sessions_' = EmptyFn
    /\ orderMappings_' = EmptyFn
    /\ StopGoto(t, "engine_check")
    /\ UNCHANGED <<bookVars, engineVars, g_msgSeqNum, sent, nextOrderId_>>
    /\ UNCHANGED <<processingThread_, joinCalls, stopFault, offLifecycle>>

\* MatchingEngine::stop: "if (!running_.load()) return;"
EngineStopCheck(t) ==
    /\ stopPc[t].pc = "engine_check"
    /\ StopGoto(t, IF running_ THEN "engine_store" ELSE "idle")
    /\ UNCHANGED <<bookVars, engineVars, gatewayVars>>
    /\ UNCHANGED <<systemRunning_, processingThread_, joinCalls, stopFault, offLifecycle>>

\* MatchingEngine::stop: running_.store(false); messageQueueCV_.notify_all()
EngineStopStore(t) ==
    /\ stopPc[t].pc = "engine_store"
    /\ running_' = FALSE
    /\ StopGoto(t, "joinable")
    /\ UNCHANGED <<bookVars, liveWorkers, incomingMessages_, orderBooks_,
                   orderSymbolMap_, reports, requests, pending, gatewayVars>>
    /\ UNCHANGED <<systemRunning_, processingThread_, joinCalls, stopFault, offLifecycle>>

\* MatchingEngine::stop: "if (processingThread_.joinable())"
EngineStopJoinable(t) ==
    /\ stopPc[t].pc = "joinable"
    /\ StopGoto(t, IF processingThread_ = "joinable" THEN "join" ELSE "idle")
    /\ UNCHANGED <<bookVars, engineVars, gatewayVars>>
    /\ UNCHANGED <<systemRunning_, processingThread_, joinCalls, stopFault, offLifecycle>>

\* the outcomes of std::thread::join() once the worker has left its loop: on
\* a joinable thread it returns and leaves the thread not joinable; a join()
\* of a thread that another caller joined meanwhile is undefined: it throws
\* std::system_error or joins the same thread handle again
joinOutcomes(thread, calls) ==
    IF thread = "joinable"
    THEN {[thread |-> "joined", calls |-> calls + 1, fault |-> FALSE]}
    ELSE {[thread |-> thread, calls |-> calls, fault |-> TRUE],
          [thread |-> thread, calls |-> calls + 1, fault |-> FALSE]}

\* MatchingEngine::stop: processingThread_.join() returns
EngineStopJoin(t) ==
    /\ stopPc[t].pc = "join"
    /\ liveWorkers = 0
    /\ \E r \in joinOutcomes(processingThread_, joinCalls) :
          /\ processingThread_' = r.thread
          /\ joinCalls' = r.calls
          /\ stopFault' = (stopFault \/ r.fault)
    /\ StopGoto(t, "idle")
    /\ UNCHANGED <<bookVars, engineVars, gatewayVars, systemRunning_, offLifecycle>>

\* MatchingEngine::processingLoop leaves "while (running_.load())"
WorkerExit ==
    /\ ~running_
    /\ liveWorkers > 0
    /\ liveWorkers' = 0
    /\ UNCHANGED <<bookVars, running_, incomingMessages_, orderBooks_,
                   orderSymbolMap_, reports, requests, pending, gatewayVars>>
    /\ UNCHANGED <<lifeVars, offLifecycle>>

NextLifecycle ==
    \/ LifeStart
    \/ \E t \in StopThreads : SystemStopCheck(t)
    \/ \E t \in StopThreads : SystemStopStore(t)
    \/ \E t \in StopThreads : EngineStopCheck(t)
    \/ \E t \in StopThreads : EngineStopStore(t)
    \/ \E t \in StopThreads : EngineStopJoinable(t)
    \/ \E t \in StopThreads : EngineStopJoin(t)
    \/ WorkerExit
    \/ \E side \in Sides : SubmitOrder(side, "Limit", SetMin(Prices), SetMin(Quantities))
    \/ ProcessingLoop

SpecLifecycle == Init /\ [][NextLifecycle]_vars

\* ------------------------------------------------------------------------
\* SpecSession: one FixSession (fix_session.cpp), constructed with or without
\* the counterparty's CompID, receives messages, is asked to check its
\* heartbeat, and time passes.
\* A session context is [s, outbox, forwarded, errors, now, sendOk]: the
\* session's members, what left through the send function, what reached
\* applicationMessageHandler_, the errors notifyError reported in this call,
\* the clock, and what the send function returns in this call.
\* An inbound message is [MsgType, SenderCompID, TargetCompID, MsgSeqNum,
\* valid]: tags 35, 49, 56, 34 and the result of FixMessage::isValid.
\* ------------------------------------------------------------------------
\* the width of uint32_t, scaled to 16 bits
Uint32Modulus == 65536

\* static_cast<uint32_t>(int)
toUint32(n) == n % Uint32Modulus

\* FixSession::updateHeartbeatTimers
updateHeartbeatTimers(ss) ==
    [ss EXCEPT !.s.lastHeartbeat_ = ss.now, !.s.lastReceivedMessage_ = ss.now]

\* FixSession::notifyError
SessionNotifyError(ss, error) == [ss EXCEPT !.errors = @ \cup {error}]

\* FixSession::sendMessage for a message whose tag 34 the caller set from
\* getNextOutgoingSeqNum(): the CompIDs are filled in and the send function
\* is called; the timers are updated when it accepts the bytes
SessionSendMessage(ss, msg) ==
    LET outMsg == [msg EXCEPT !.SenderCompID = ss.s.senderCompID_,
                              !.TargetCompID = ss.s.targetCompID_]
    IN IF ss.sendOk
       THEN updateHeartbeatTimers([ss EXCEPT !.outbox = Append(@, outMsg)])
       ELSE SessionNotifyError(ss, "Failed to send message")

\* the admin senders (sendLogonResponse, sendHeartbeat, sendResendRequest,
\* the Logout reply): tag 34 = getNextOutgoingSeqNum(), then sendAdminMessage
SessionSendAdmin(ss, msgType, beginSeqNo, endSeqNo) ==
    SessionSendMessage(
        [ss EXCEPT !.s.outgoingSeqNum_ = toUint32(@ + 1)],
        [MsgType |-> msgType, SenderCompID |-> NoCompID, TargetCompID |-> NoCompID,
         MsgSeqNum |-> ss.s.outgoingSeqNum_,
         BeginSeqNo |-> beginSeqNo, EndSeqNo |-> endSeqNo])

\* FixSession::sendResendRequest
sendResendRequest(ss, beginSeqNum, endSeqNum) ==
    SessionSendAdmin(ss, "2", beginSeqNum, endSeqNum)

\* FixSession::handleSequenceGap
handleSequenceGap(ss, expectedSeqNum, receivedSeqNum) ==
    sendResendRequest(ss, expectedSeqNum, toUint32(receivedSeqNum - 1))

\* FixSession::validateSequenceNumber
SessionValidateSequenceNumber_NoGap(ss, msg) ==
    LET receivedSeqNum == toUint32(msg.MsgSeqNum)
        expectedSeqNum == ss.s.expectedIncomingSeqNum_
    IN IF receivedSeqNum = expectedSeqNum
       THEN [ss |-> ss, ok |-> TRUE]
       ELSE IF receivedSeqNum < expectedSeqNum
       THEN [ss |-> ss, ok |-> FALSE]
       ELSE [ss |-> ss, ok |-> TRUE]

SessionValidateSequenceNumber(ss, msg) ==
    LET receivedSeqNum == toUint32(msg.MsgSeqNum)
        expectedSeqNum == ss.s.expectedIncomingSeqNum_
    IN IF receivedSeqNum = expectedSeqNum
       THEN [ss |-> ss, ok |-> TRUE]
       ELSE IF receivedSeqNum < expectedSeqNum
       THEN [ss |-> ss, ok |-> FALSE]
       ELSE [ss |-> handleSequenceGap(ss, expectedSeqNum, receivedSeqNum),
             ok |-> TRUE]

\* FixSession::logout: nothing unless LoggedIn; PendingLogout, the Logout
\* message, then LoggedOut at once
logout(ss) ==
    IF ss.s.state_ # "LoggedIn"
    THEN ss
    ELSE [SessionSendAdmin([ss EXCEPT !.s.state_ = "PendingLogout"], "5", NoField, NoField)
             EXCEPT !.s.state_ = "LoggedOut"]

\* FixSession::accept: the Logon of a counterparty on a Disconnected session
accept_Silent(ss, logonMsg) ==
    LET bound == IF ss.s.targetCompID_ = NoCompID
                 THEN [ss EXCEPT !.s.targetCompID_ = logonMsg.SenderCompID]
                 ELSE ss
    IN IF ss.s.state_ # "Disconnected"
       THEN SessionNotifyError(ss, "Cannot accept logon")
       ELSE IF \/ logonMsg.SenderCompID # bound.s.targetCompID_
               \/ logonMsg.TargetCompID # bound.s.senderCompID_
       THEN SessionNotifyError(bound, "CompID mismatch")
       ELSE updateHeartbeatTimers(
                [bound EXCEPT !.s.heartbeatInterval_ = HeartBtInt,
                              !.s.state_ = "LoggedIn"])

accept(ss, logonMsg) ==
    LET bound == IF ss.s.targetCompID_ = NoCompID
                 THEN [ss EXCEPT !.s.targetCompID_ = logonMsg.SenderCompID]
                 ELSE ss
    IN IF ss.s.state_ # "Disconnected"
       THEN SessionNotifyError(ss, "Cannot accept logon")
       ELSE IF \/ logonMsg.SenderCompID # bound.s.targetCompID_
               \/ logonMsg.TargetCompID # bound.s.senderCompID_
       THEN SessionNotifyError(bound, "CompID mismatch")
       ELSE SessionSendAdmin(
                updateHeartbeatTimers(
                    [bound EXCEPT !.s.heartbeatInterval_ = HeartBtInt,
                                  !.s.state_ = "LoggedIn"]),
                "A", NoField, NoField)

\* FixSession::handleLogon
SessionHandleLogon(ss, msg) ==
    IF ss.s.state_ = "PendingLogon"
    THEN updateHeartbeatTimers([ss EXCEPT !.s.state_ = "LoggedIn"])
    ELSE IF ss.s.state_ = "Disconnected"
    THEN accept(ss, msg)
    ELSE SessionNotifyError(ss, "Unexpected Logon message")

\* FixSession::handleLogout
SessionHandleLogout(ss) ==
    IF ss.s.state_ = "PendingLogout"
    THEN [ss EXCEPT !.s.state_ = "LoggedOut"]
    ELSE IF ss.s.state_ = "LoggedIn"
    THEN [SessionSendAdmin(ss, "5", NoField, NoField) EXCEPT !.s.state_ = "LoggedOut"]
    ELSE ss

\* FixSession::sendHeartbeat
sendHeartbeat(ss) == SessionSendAdmin(ss, "0", NoField, NoField)

\* FixSession::handleAdminMessage
SessionHandleAdminMessage(ss, msg) ==
    IF msg.MsgType = "A" THEN SessionHandleLogon(ss, msg)
    ELSE IF msg.MsgType = "5" THEN SessionHandleLogout(ss)
    ELSE IF msg.MsgType = "1" THEN sendHeartbeat(ss)
    ELSE ss

\* the CompID test of FixSession::processIncomingMessage
compIdMismatch_SenderOnly(s, msg) ==
    msg.SenderCompID # s.targetCompID_

compIdMismatch(s, msg) ==
    msg.SenderCompID # s.targetCompID_ \/ msg.TargetCompID # s.senderCompID_

\* FixSession::processIncomingMessage(const FixMessage&): the session context
\* after the call, and what the call returns
SessionProcessIncomingMessage(ss0, msg) ==
    LET ss == updateHeartbeatTimers(ss0)
        bound == IF ss.s.targetCompID_ = NoCompID
                 THEN [ss EXCEPT !.s.targetCompID_ = msg.SenderCompID]
                 ELSE ss
        Dispatch(d) ==
            IF isAdminMessage(msg.MsgType)
            THEN [ss |-> SessionHandleAdminMessage(d, msg),
                  ok |-> msg.MsgType \in {"A", "5", "0", "1"}]
            ELSE IF d.s.state_ # "LoggedIn"
            THEN [ss |-> SessionNotifyError(d, "not logged in"), ok |-> FALSE]
            ELSE [ss |-> [d EXCEPT !.forwarded = Append(@, msg.MsgSeqNum)],
                  ok |-> TRUE]
        Validated(v) ==
            IF ~v.ok
            THEN [ss |-> v.ss, ok |-> FALSE]
            ELSE Dispatch([v.ss EXCEPT !.s.expectedIncomingSeqNum_ =
                                           toUint32(msg.MsgSeqNum + 1)])
    IN IF ~msg.valid
       THEN [ss |-> SessionNotifyError(ss, "Invalid message"), ok |-> FALSE]
       ELSE IF compIdMismatch(bound.s, msg)
       THEN [ss |-> SessionNotifyError(bound, "CompID mismatch in message"),
             ok |-> FALSE]
       ELSE Validated(SessionValidateSequenceNumber(bound, msg))

\* FixSession::shouldSendHeartbeat
shouldSendHeartbeat(s, t) ==
    s.state_ = "LoggedIn" /\ t - s.lastHeartbeat_ >= s.heartbeatInterval_

\* FixSession::isHeartbeatExpired: elapsed > heartbeatInterval_ * 1.2
isHeartbeatExpired(s, t) ==
    s.state_ = "LoggedIn" /\ 10 * (t - s.lastReceivedMessage_) > 12 * s.heartbeatInterval_

\* FixSession::checkHeartbeat
checkHeartbeat(ss) ==
    LET Expire(e) ==
            IF isHeartbeatExpired(e.s, e.now)
            THEN [ss |-> [SessionNotifyError(e, "Heartbeat timeout")
                             EXCEPT !.s.state_ = "Error"],
                  ok |-> FALSE]
            ELSE [ss |-> e, ok |-> TRUE]
    IN IF ss.s.state_ # "LoggedIn"
       THEN [ss |-> ss, ok |-> TRUE]
       ELSE Expire(IF shouldSendHeartbeat(ss.s, ss.now) THEN sendHeartbeat(ss) ELSE ss)

\* the session context held in the variables, for a call during which the
\* send function returns sendOk
SessionContext(sendOk) ==
    [s |-> fixSession, outbox |-> outbox, forwarded |-> forwarded, errors |-> {},
     now |-> now, sendOk |-> sendOk]

SetSession(r, call, msg, sendOk) ==
    /\ fixSession' = r.ss.s
    /\ outbox' = r.ss.outbox
    /\ forwarded' = r.ss.forwarded
    /\ lastIn' = [flip |-> ~lastIn.flip, call |-> call, msg |-> msg,
                  sendOk |-> sendOk, ok |-> r.ok, errors |-> r.ss.errors]
    /\ lastOutboundAt' = IF Len(r.ss.outbox) > Len(outbox) THEN now ELSE lastOutboundAt

\* the messages a counterparty (or a third party) sends
InboundMessage(msgType, sender, target, seqNum, valid) ==
    [MsgType |-> msgType, SenderCompID |-> sender, TargetCompID |-> target,
     MsgSeqNum |-> seqNum, valid |-> valid]

\* SequenceReset messages (35=4) of the counterparty, with tag 36
SequenceResets ==
    {[MsgType |-> "4", SenderCompID |-> RemoteCompID, TargetCompID |-> LocalCompID,
      MsgSeqNum |-> seqNum, valid |-> TRUE, NewSeqNo |-> NewSeqNo] : seqNum \in {1, 2}}

InboundMessages ==
    {InboundMessage(msgType, ids[1], ids[2], seqNum, TRUE) :
        msgType \in {"A", "0", "D"},
        ids \in {<<RemoteCompID, LocalCompID>>, <<OtherCompID, LocalCompID>>,
                 <<RemoteCompID, OtherCompID>>},
        seqNum \in InSeqNums}
    \cup {InboundMessage("D", RemoteCompID, LocalCompID, 1, FALSE)}
    \cup SequenceResets

\* the network thread hands one received message to
\* FixSession::processIncomingMessage
SessionReceive(msg, sendOk) ==
    /\ messagesReceived_ < MaxReceived
    /\ messagesReceived_' = messagesReceived_ + 1
    /\ \E r \in {SessionProcessIncomingMessage(SessionContext(sendOk), msg)} :
          SetSession(r, "processIncomingMessage", msg, sendOk)
    /\ lastInboundAt' = now
    /\ UNCHANGED <<now, offSession>>

\* the owner of the session calls FixSession::checkHeartbeat
SessionCheckHeartbeat(sendOk) ==
    /\ fixSession.outgoingSeqNum_ <= MaxReceived + MaxTime
    /\ \E r \in {checkHeartbeat(SessionContext(sendOk))} :
          SetSession(r, "checkHeartbeat", <<>>, sendOk)
    /\ UNCHANGED <<messagesReceived_, now, lastInboundAt, offSession>>

\* the owner of the session calls FixSession::logout (a call in any state
\* but LoggedIn returns at once and changes nothing)
SessionLogout(sendOk) ==
    /\ fixSession.state_ = "LoggedIn"
    /\ \E r \in {[ss |-> logout(SessionContext(sendOk)), ok |-> TRUE]} :
          SetSession(r, "logout", <<>>, sendOk)
    /\ UNCHANGED <<messagesReceived_, now, lastInboundAt, offSession>>

\* a second passes
SessionTick ==
    /\ now < MaxTime
    /\ now' = now + 1
    /\ UNCHANGED <<fixSession, messagesReceived_, outbox, forwarded, lastIn,
                   lastInboundAt, lastOutboundAt, offSession>>

NextSession ==
    \/ \E msg \in InboundMessages, sendOk \in BOOLEAN : SessionReceive(msg, sendOk)
    \/ \E sendOk \in BOOLEAN : SessionCheckHeartbeat(sendOk)
    \/ \E sendOk \in BOOLEAN : SessionLogout(sendOk)
    \/ SessionTick

\* the session is constructed with the counterparty's CompID or with an
\* empty one
InitSpecSession ==
    /\ InitProgram
    /\ InitLifecycle
    /\ InitCodec(EmptyFn)
    /\ InitLocks(FALSE)
    /\ InitRoute
    /\ \E targetCompID \in {NoCompID, RemoteCompID} : InitSession(targetCompID)

SpecSession == InitSpecSession /\ [][NextSession]_vars

\* ------------------------------------------------------------------------
\* SpecCodec: FixMessage::serialize / parse / parseUnsafe (fix_message.cpp).
\* A string is a sequence of bytes (numbers 0..255); a record set is a
\* function from tags to strings.  A message is built from a record set and
\* serialized; the bytes may reach the parser as they are, with one byte
\* changed, or without the trailing CheckSum field.
\* ------------------------------------------------------------------------
SOH == 1
ByteEquals == 61
BytePipe == 124
ByteZero == 48
ByteA == 65
ByteD == 68
\* "FIX.4.2"
BeginStringFix42 == <<70, 73, 88, 46, 52, 46, 50>>
\* FixMessage::StandardTags
BeginString == 8
BodyLength == 9
CheckSum == 10
MsgType == 35
ClOrdID == 11
Text == 58

RECURSIVE toDecimal(_)
\* std::to_string / operator<< of a non-negative number
toDecimal(n) ==
    IF n < 10 THEN <<ByteZero + n>>
    ELSE Append(toDecimal(n \div 10), ByteZero + (n % 10))

RECURSIVE byteSum(_)
\* the sum of the bytes of a string
byteSum(str) == IF str = <<>> THEN 0 ELSE Head(str) + byteSum(Tail(str))

\* FixMessage::calculateChecksum: sum % 256 written with setw(3) and
\* setfill('0')
calculateChecksum_Unpadded(str) == toDecimal(byteSum(str) % 256)

calculateChecksum(str) ==
    LET checksum == byteSum(str) % 256
    IN <<ByteZero + (checksum \div 100), ByteZero + ((checksum \div 10) % 10),
         ByteZero + (checksum % 10)>>

\* FixMessage::getField: the empty string when the tag is absent
getField(fields, tag) == IF tag \in DOMAIN fields THEN fields[tag] ELSE <<>>

\* "tag=value<SOH>"
fieldBytes(tag, value) == toDecimal(tag) \o <<ByteEquals>> \o value \o <<SOH>>

RECURSIVE sortedFieldBytes(_, _)
\* the fields of the tags, in ascending tag order (std::sort of sortedFields)
sortedFieldBytes(fields, tags) ==
    IF tags = {} THEN <<>>
    ELSE fieldBytes(SetMin(tags), fields[SetMin(tags)])
            \o sortedFieldBytes(fields, tags \ {SetMin(tags)})

\* FixMessage::buildBodyContent (and the body part of serialize): MsgType,
\* then every tag but 8, 9, 35 and 10
buildBodyContent(fields) ==
    (IF MsgType \in DOMAIN fields THEN fieldBytes(MsgType, fields[MsgType]) ELSE <<>>)
    \o sortedFieldBytes(fields, DOMAIN fields \ {BeginString, BodyLength, MsgType, CheckSum})

\* FixMessage::buildMessageWithoutChecksum
buildMessageWithoutChecksum(fields) ==
    fieldBytes(BeginString, getField(fields, BeginString))
    \o fieldBytes(BodyLength, toDecimal(Len(buildBodyContent(fields))))
    \o buildBodyContent(fields)

\* FixMessage::serialize: throws without BeginString or MsgType
serialize(fields) ==
    IF BeginString \notin DOMAIN fields \/ MsgType \notin DOMAIN fields
    THEN [ok |-> FALSE, bytes |-> <<>>]
    ELSE [ok |-> TRUE,
          bytes |-> buildMessageWithoutChecksum(fields)
                    \o fieldBytes(CheckSum,
                                  calculateChecksum(buildMessageWithoutChecksum(fields)))]

\* FixMessage::validateChecksum: the CheckSum field is compared with the
\* checksum of the message rebuilt from the fields
validateChecksum(fields) ==
    /\ CheckSum \in DOMAIN fields
    /\ fields[CheckSum] = calculateChecksum(buildMessageWithoutChecksum(fields))

\* std::string::find(byte, from), positions counted from 1; 0 is npos
find(str, byte, from) ==
    LET hits == {i \in from..Len(str) : str[i] = byte}
    IN IF hits = {} THEN 0 ELSE SetMin(hits)

\* the number of leading decimal digits of a string
digitPrefixLen(str) ==
    LET nonDigits == {i \in 1..Len(str) : str[i] < ByteZero \/ str[i] > ByteZero + 9}
    IN IF nonDigits = {} THEN Len(str) ELSE SetMin(nonDigits) - 1

RECURSIVE digitsValue(_)
digitsValue(str) ==
    IF str = <<>> THEN 0
    ELSE 10 * digitsValue(SubSeq(str, 1, Len(str) - 1)) + (str[Len(str)] - ByteZero)

\* std::stoi of a string without white space or sign: the leading digits are
\* converted, the rest is ignored; without a leading digit it throws
stoi(str) ==
    IF digitPrefixLen(str) = 0
    THEN [ok |-> FALSE, value |-> 0]
    ELSE [ok |-> TRUE, value |-> digitsValue(SubSeq(str, 1, digitPrefixLen(str)))]

RECURSIVE parseFields(_, _, _)
\* the loop of FixMessage::parseWithValidation from position pos on: the
\* fields read, or a failure on a tag that is not a number
parseFields(raw, pos, fields) ==
    LET equalPos == find(raw, ByteEquals, pos)
        sohPos == IF find(raw, SOH, equalPos) # 0 THEN find(raw, SOH, equalPos)
                  ELSE IF find(raw, BytePipe, equalPos) # 0
                  THEN find(raw, BytePipe, equalPos)
                  ELSE Len(raw) + 1
        tag == stoi(SubSeq(raw, pos, equalPos - 1))
        value == SubSeq(raw, equalPos + 1, sohPos - 1)
    IN IF pos > Len(raw) \/ equalPos = 0
       THEN [ok |-> TRUE, fields |-> fields]
       ELSE IF ~tag.ok
       THEN [ok |-> FALSE, fields |-> EmptyFn]
       ELSE parseFields(raw, sohPos + 1, MapPut(fields, tag.value, value))

\* FixMessage::parseWithValidation: parse (validateChecksum = true) and
\* parseUnsafe (false)
parseWithValidation(raw, strict) ==
    LET Checked(msg) ==
            IF ~msg.ok THEN msg
            ELSE IF strict /\ ~validateChecksum(msg.fields)
            THEN [ok |-> FALSE, fields |-> EmptyFn]
            ELSE msg
    IN IF raw = <<>> THEN [ok |-> FALSE, fields |-> EmptyFn]
       ELSE Checked(parseFields(raw, 1, EmptyFn))

RECURSIVE stringsUpTo(_, _)
\* the strings of at most n bytes over an alphabet
stringsUpTo(alphabet, n) ==
    IF n = 0 THEN {<<>>}
    ELSE stringsUpTo(alphabet, n - 1)
         \cup {Append(str, b) : str \in stringsUpTo(alphabet, n - 1), b \in alphabet}

\* the values a caller gives to setField(58, ...)
TextValues == stringsUpTo({ByteA, SOH}, MaxValueLen)

\* the record sets: BeginString and MsgType, with or without ClOrdID and Text
RecordSets ==
    LET base == (BeginString :> BeginStringFix42) @@ (MsgType :> <<ByteD>>)
    IN {base} \cup {MapPut(base, ClOrdID, <<ByteA>>)}
       \cup {MapPut(base, Text, v) : v \in TextValues}
       \cup {MapPut(MapPut(base, ClOrdID, <<ByteA>>), Text, v) : v \in TextValues}

\* the bytes a changed byte may become
TamperBytes == {SOH, BytePipe, ByteA, ByteZero + 6}

\* FixMessage::serialize of the message
Serialize ==
    /\ rawMessage = <<>>
    /\ serialize(fields_).ok
    /\ rawMessage' = serialize(fields_).bytes
    /\ UNCHANGED <<fields_, tampered, parsed, offCodec>>

\* one byte of the serialized message changes before it is parsed
TamperByte(i, b) ==
    /\ ~tampered
    /\ parsed.call = "none"
    /\ i \in 1..Len(rawMessage)
    /\ rawMessage[i] # b
    /\ rawMessage' = [rawMessage EXCEPT ![i] = b]
    /\ tampered' = TRUE
    /\ UNCHANGED <<fields_, parsed, offCodec>>

\* the trailing CheckSum field "10=ccc<SOH>" is cut off before the message
\* is parsed
StripCheckSum ==
    /\ ~tampered
    /\ parsed.call = "none"
    /\ Len(rawMessage) > 7
    /\ rawMessage' = SubSeq(rawMessage, 1, Len(rawMessage) - 7)
    /\ tampered' = TRUE
    /\ UNCHANGED <<fields_, parsed, offCodec>>

\* FixMessage::parse(rawMessage)
Parse ==
    /\ rawMessage # <<>>
    /\ parsed.call = "none"
    /\ \E r \in {parseWithValidation(rawMessage, TRUE)} :
          parsed' = [call |-> "parse", ok |-> r.ok, fields |-> r.fields]
    /\ UNCHANGED <<fields_, rawMessage, tampered, offCodec>>

\* FixMessage::parseUnsafe(rawMessage)
ParseUnsafe ==
    /\ rawMessage # <<>>
    /\ parsed.call = "none"
    /\ \E r \in {parseWithValidation(rawMessage, FALSE)} :
          parsed' = [call |-> "parseUnsafe", ok |-> r.ok, fields |-> r.fields]
    /\ UNCHANGED <<fields_, rawMessage, tampered, offCodec>>

NextCodec ==
    \/ Serialize
    \/ \E i \in 1..Len(rawMessage), b \in TamperBytes : TamperByte(i, b)
    \/ StripCheckSum
    \/ Parse
    \/ ParseUnsafe

InitSpecCodec ==
    /\ InitProgram
    /\ InitLifecycle
    /\ InitSession(NoCompID)
    /\ \E fields \in RecordSets : InitCodec(fields)
    /\ InitLocks(FALSE)
    /\ InitRoute

SpecCodec == InitSpecCodec /\ [][NextCodec]_vars

\* ------------------------------------------------------------------------
\* SpecLocks: the mutexes of the engine and of the gateway.  Each operation
\* is the sequence of lock and unlock calls its code makes (a scoped lock is
\* a lock call and the unlock call at the end of its scope); a thread runs
\* one operation at a time, one call per step.  There is one symbol, so one
\* OrderBook::mutex_.
\* ------------------------------------------------------------------------
Scoped(mutex, inside) == <<<<"lock", mutex>>>> \o inside \o <<<<"unlock", mutex>>>>

ScopedShared(mutex, inside) ==
    <<<<"lock_shared", mutex>>>> \o inside \o <<<<"unlock_shared", mutex>>>>

\* a call of a locking OrderBook member (findOrder, cancelOrder, addOrder,
\* getTotalOrderCount, getBidPrice, ...)
bookCallLocks == Scoped("mutex_", <<>>)

\* MatchingEngine::findOrder
findOrderLocks ==
    Scoped("orderMapMutex_", ScopedShared("orderBooksMutex_", bookCallLocks))

\* MatchingEngine::validateSymbolLimits
validateSymbolLimitsLocks == ScopedShared("orderBooksMutex_", bookCallLocks)

\* MatchingEngine::getOrCreateOrderBook
getOrCreateOrderBookLocks == Scoped("orderBooksMutex_", <<>>)

\* MatchingEngine::createMarketData: getBidPrice, getAskPrice, getBidQuantity,
\* getAskQuantity under the shared lock
createMarketDataLocks ==
    ScopedShared("orderBooksMutex_",
                 bookCallLocks \o bookCallLocks \o bookCallLocks \o bookCallLocks)

\* MatchingEngine::processNewOrder: performRiskCheck, getOrCreateOrderBook,
\* the orderSymbolMap_ insertion, OrderBook::addOrder (no market data
\* callback is registered)
processNewOrderLocks ==
    validateSymbolLimitsLocks \o getOrCreateOrderBookLocks
        \o Scoped("orderMapMutex_", <<>>) \o bookCallLocks

\* MatchingEngine::processCancelOrder: findOrder, then OrderBook::cancelOrder
\* and the orderSymbolMap_ erasure under the shared lock
processCancelOrderLocks ==
    findOrderLocks
        \o ScopedShared("orderBooksMutex_",
                        bookCallLocks \o Scoped("orderMapMutex_", <<>>))

\* MatchingEngine::submitOrder / cancelOrder: the push under the queue mutex
submitOrderLocks == Scoped("messageQueueMutex_", <<>>)

\* TradingSystem::handleExecutionReport: the orderMappings_ lookup, then
\* sendFixMessage (TCPServer::sendMessage)
handleExecutionReportLocks ==
    Scoped("mappingsMutex_", <<>>) \o Scoped("clients_mutex_", <<>>)

processInternalMessageLocks(type) ==
    IF type = "NewOrder" THEN processNewOrderLocks ELSE processCancelOrderLocks

\* one iteration of MatchingEngine::processingLoop: the pop under the queue
\* mutex, processInternalMessage, notifyExecution
processingLoopLocks_CallbackInside(type) ==
    Scoped("messageQueueMutex_", <<>>)
        \o SubSeq(processInternalMessageLocks(type), 1,
                  Len(processInternalMessageLocks(type)) - 1)
        \o handleExecutionReportLocks
        \o <<processInternalMessageLocks(type)[Len(processInternalMessageLocks(type))]>>

processingLoopLocks(type) ==
    Scoped("messageQueueMutex_", <<>>)
        \o processInternalMessageLocks(type)
        \o handleExecutionReportLocks

\* the public operations of MatchingEngine a caller thread may be in
publicOperationLocks(op) ==
    IF op \in {"submitOrder", "cancelOrder"} THEN submitOrderLocks
    ELSE IF op = "findOrder" THEN findOrderLocks
    ELSE IF op = "getMarketData" THEN createMarketDataLocks
    ELSE IF op = "processOrderSync" THEN processNewOrderLocks
    ELSE processCancelOrderLocks

PublicOperations ==
    {"submitOrder", "cancelOrder", "findOrder", "getMarketData", "processOrderSync",
     "cancelOrderSync"}

\* the threads that own the mutex in a mode
holders(mutex, mode) == {t \in LockThreads : <<t, mode>> \in owners[mutex]}

\* the threads inside lock() of the mutex, waiting for its owners
waitingWriters(mutex) ==
    {u \in LockThreads :
        /\ lockProgram[u] # <<>>
        /\ Head(lockProgram[u]) = <<"lock", mutex>>
        /\ owners[mutex] # {}}

\* the threads that keep thread t from completing its next call
blockers(t) ==
    IF lockProgram[t] = <<>> THEN {}
    ELSE IF Head(lockProgram[t])[1] = "lock"
    THEN (holders(Head(lockProgram[t])[2], "exclusive")
          \cup holders(Head(lockProgram[t])[2], "shared")) \ {t}
    ELSE IF Head(lockProgram[t])[1] = "lock_shared"
    THEN (holders(Head(lockProgram[t])[2], "exclusive")
          \cup (IF writerPriority THEN waitingWriters(Head(lockProgram[t])[2]) ELSE {}))
         \ {t}
    ELSE {}

\* the mutex state after thread t completes the call
afterCall(h, t, call) ==
    IF call[1] = "lock" THEN [h EXCEPT ![call[2]] = @ \cup {<<t, "exclusive">>}]
    ELSE IF call[1] = "unlock" THEN [h EXCEPT ![call[2]] = @ \ {<<t, "exclusive">>}]
    ELSE IF call[1] = "lock_shared" THEN [h EXCEPT ![call[2]] = @ \cup {<<t, "shared">>}]
    ELSE [h EXCEPT ![call[2]] = @ \ {<<t, "shared">>}]

\* the worker wakes up for a queued message of the type
WorkerBegin(type) ==
    /\ lockProgram["worker"] = <<>>
    /\ lockProgram' = [lockProgram EXCEPT !["worker"] = processingLoopLocks(type)]
    /\ lockOp' = [lockOp EXCEPT !["worker"] = type]
    /\ UNCHANGED <<owners, writerPriority, offLocks>>

\* a caller thread enters a public operation
CallerBegin(t, op) ==
    /\ t # "worker"
    /\ lockProgram[t] = <<>>
    /\ lockProgram' = [lockProgram EXCEPT ![t] = publicOperationLocks(op)]
    /\ lockOp' = [lockOp EXCEPT ![t] = op]
    /\ UNCHANGED <<owners, writerPriority, offLocks>>

\* a thread completes its next lock or unlock call
LockStep(t) ==
    /\ lockProgram[t] # <<>>
    /\ blockers(t) = {}
    /\ owners' = afterCall(owners, t, Head(lockProgram[t]))
    /\ lockProgram' = [lockProgram EXCEPT ![t] = Tail(@)]
    /\ UNCHANGED <<lockOp, writerPriority, offLocks>>

NextLocks ==
    \/ \E type \in {"NewOrder", "CancelOrder"} : WorkerBegin(type)
    \/ \E t \in LockThreads, op \in PublicOperations : CallerBegin(t, op)
    \/ \E t \in LockThreads : LockStep(t)

\* the build's std::shared_mutex lets readers pass a waiting writer, or
\* makes them wait behind it
InitSpecLocks ==
    /\ InitProgram
    /\ InitLifecycle
    /\ InitSession(NoCompID)
    /\ InitCodec(EmptyFn)
    /\ \E policy \in BOOLEAN : InitLocks(policy)
    /\ InitRoute

SpecLocks == InitSpecLocks /\ [][NextLocks]_vars

\* ------------------------------------------------------------------------
\* Properties of the book (checked under SpecBook)
\* ------------------------------------------------------------------------
AllHeld == HeldIds(bidSide_) \cup HeldIds(askSide_)
BidPrices == {orders[id].price_ : id \in ActiveHeld(bidSide_, orders)}
AskPrices == {orders[id].price_ : id \in ActiveHeld(askSide_, orders)}

\* the resting order of a trade of the last addOrder: the party that is not
\* the order that was added
TradeAggressor(t) == lastOp.id
TradeResting(t) == IF t.buyOrderId = lastOp.id THEN t.sellOrderId ELSE t.buyOrderId

\* C1: between operations, one side has no active resting order or every
\* active bid is priced strictly below every active ask (never locked or
\* crossed at rest).
C1_NotCrossedAtRest ==
    \/ ActiveHeld(bidSide_, orders) = {}
    \/ ActiveHeld(askSide_, orders) = {}
    \/ SetMax(BidPrices) < SetMin(AskPrices)

\* C1 witness: a two-sided book right after an addOrder that traded.
C1_Witness ==
    /\ lastOp.op = "add"
    /\ lastTrades # <<>>
    /\ ActiveHeld(bidSide_, orders) # {}
    /\ ActiveHeld(askSide_, orders) # {}

\* r has priority over s on the side they rest on
HasPriorityOver(r, s) ==
    \/ (orders[s].side_ = "Sell" /\ orders[r].price_ < orders[s].price_)
    \/ (orders[s].side_ = "Buy" /\ orders[r].price_ > orders[s].price_)
    \/ (orders[r].price_ = orders[s].price_ /\ addedAt[r] < addedAt[s])

\* C2: every trade of the last addOrder was executed against an order that was
\* active on the opposite side, and no other active order of that side had a
\* better price, or the same price and an earlier insertion.
C2_PriceTimePriority ==
    lastOp.op = "add" =>
        \A i \in 1..Len(lastTrades) :
            LET t == lastTrades[i]
            IN /\ TradeResting(t) \in t.oppositeActive
               /\ orders[TradeResting(t)].side_ # orders[TradeAggressor(t)].side_
               /\ \A r \in t.oppositeActive \ {TradeResting(t)} :
                      ~HasPriorityOver(r, TradeResting(t))

\* C2 witness: a trade executed while a later order rested at the same price
\* and another while a worse-priced order rested.
C2_Witness ==
    /\ lastOp.op = "add"
    /\ \E i \in 1..Len(lastTrades) :
          \E r \in lastTrades[i].oppositeActive \ {TradeResting(lastTrades[i])} :
              orders[r].price_ = orders[TradeResting(lastTrades[i])].price_
    /\ Len(lastTrades) = 2

\* C3: every trade is priced at the resting order's price and its quantity is
\* min(aggressor.remaining, resting.remaining) > 0.
C3_TradePriceAndQuantity ==
    lastOp.op = "add" =>
        \A i \in 1..Len(lastTrades) :
            LET t == lastTrades[i]
            IN /\ {t.buyOrderId, t.sellOrderId} = {TradeAggressor(t), TradeResting(t)}
               /\ TradeAggressor(t) # TradeResting(t)
               /\ t.price = orders[TradeResting(t)].price_
               /\ t.quantity = Min(t.aggressorRemaining, t.restingRemaining)
               /\ t.quantity > 0

\* C3 witness: a limit aggressor traded at a resting price different from its
\* own limit (price improvement), for less than its whole quantity.
C3_Witness ==
    /\ lastOp.op = "add"
    /\ \E i \in 1..Len(lastTrades) :
          /\ isLimitOrder(orders[lastOp.id])
          /\ lastTrades[i].price # orders[lastOp.id].price_
          /\ lastTrades[i].quantity < orders[lastOp.id].quantity_

\* C4: every order in a price ladder or an id index is new or partially
\* filled with remaining > 0, and the best order of each side is none or
\* such an order.
RestingOk(id) ==
    /\ id \in DOMAIN orders
    /\ orders[id].status_ \in {"New", "PartiallyFilled"}
    /\ orders[id].remainingQuantity_ > 0

C4_RestingOrdersActive ==
    /\ \A id \in AllHeld : RestingOk(id)
    /\ LET b == getBestOrder(bidSide_, "Buy", orders).best
       IN b = NoOrder \/ RestingOk(b)
    /\ LET a == getBestOrder(askSide_, "Sell", orders).best
       IN a = NoOrder \/ RestingOk(a)

\* C4 witness: after a successful cancel, a partially filled order still
\* rests while another order is filled.
C4_Witness ==
    /\ lastOp.op = "cancel" /\ lastOp.ok
    /\ \E id \in AllHeld : orders[id].status_ = "PartiallyFilled"
    /\ \E id \in DOMAIN orders : orders[id].status_ = "Filled"

\* C5: for every order, filled + remaining = quantity with
\* 0 <= remaining <= quantity, filled is the sum of the quantities of the
\* order's trades, and remaining never increases.
FillAccounting(ords, traded) ==
    \A id \in DOMAIN ords :
        /\ getFilledQuantity(ords[id]) + ords[id].remainingQuantity_ = ords[id].quantity_
        /\ 0 <= ords[id].remainingQuantity_
        /\ ords[id].remainingQuantity_ <= ords[id].quantity_
        /\ traded[id] = ords[id].quantity_ - ords[id].remainingQuantity_

RemainingMonotone ==
    \A id \in DOMAIN orders :
        /\ id \in DOMAIN orders'
        /\ orders'[id].remainingQuantity_ <= orders[id].remainingQuantity_
        /\ orders'[id].quantity_ = orders[id].quantity_

C5_FillAccounting ==
    /\ []FillAccounting(orders, tradedQty)
    /\ [][RemainingMonotone]_vars

\* C5 witness: one order partially filled, another filled by two trades.
C5_Witness ==
    /\ \E id \in DOMAIN orders :
          /\ orders[id].status_ = "PartiallyFilled"
          /\ tradedQty[id] = 1
    /\ Len(lastTrades) = 2

\* C6: a filled, cancelled or rejected order is never changed again: its
\* status and remaining stay, and no later operation trades against it.
TerminalFrozen ==
    \A id \in DOMAIN orders :
        ~isActive(orders[id]) =>
            /\ orders'[id] = orders[id]
            /\ tradedQty'[id] = tradedQty[id]
            /\ lastTrades' # lastTrades =>
                   \A i \in 1..Len(lastTrades') :
                       id \notin {lastTrades'[i].buyOrderId, lastTrades'[i].sellOrderId}

C6_TerminalNeverResurrected == [][TerminalFrozen]_vars

\* C6 witness: the worker has processed a modify request aimed at an order
\* that is already filled, cancelled or rejected.
C6_Witness ==
    /\ lastOp.op = "modify"
    /\ lastOp.thread = "worker"
    /\ lastOp.id \in DOMAIN orders
    /\ ~lastOp.ok
    /\ orders[lastOp.id].status_ \in {"Filled", "Cancelled", "Rejected"}

\* C12: a market order is never held by a book side; after its addOrder it is
\* filled, or, when the opposite side ran out first, rejected with its
\* residual left out of the book; against an empty opposite side it is
\* rejected with no trade.
C12_MarketOrderNeverRests ==
    /\ \A id \in DOMAIN orders :
           isMarketOrder(orders[id]) =>
               /\ id \notin AllHeld
               /\ orders[id].status_ \in {"Filled", "Rejected"}
               /\ orders[id].remainingQuantity_ > 0 => orders[id].status_ = "Rejected"
    /\ (lastOp.op = "add" /\ isMarketOrder(orders[lastOp.id])
           /\ tradedQty[lastOp.id] = 0) => lastTrades = <<>>

\* C12 witness: a market order that traded part of its quantity and was then
\* rejected for the rest.
C12_Witness ==
    /\ lastOp.op = "add"
    /\ isMarketOrder(orders[lastOp.id])
    /\ orders[lastOp.id].status_ = "Rejected"
    /\ tradedQty[lastOp.id] = 1
    /\ orders[lastOp.id].remainingQuantity_ = 1

\* C13: cancelOrder(id) succeeds exactly when id is an active order held by
\* a side; then the order is cancelled and gone from the ladder and the id
\* index of its side and nothing else changes; otherwise the orders and both
\* sides are unchanged.
CancelStep ==
    (lastOp'.op = "cancel" /\ vars' # vars) =>
        LET id == lastOp'.id
            wasResting == /\ id \in DOMAIN orders
                          /\ id \in AllHeld
                          /\ isActive(orders[id])
        IN /\ lastOp'.ok <=> wasResting
           /\ wasResting =>
                  /\ orders'[id] = [orders[id] EXCEPT !.status_ = "Cancelled"]
                  /\ \A x \in DOMAIN orders \ {id} : orders'[x] = orders[x]
                  /\ HeldIds(bidSide_') = HeldIds(bidSide_) \ {id}
                  /\ HeldIds(askSide_') = HeldIds(askSide_) \ {id}
                  /\ id \notin LadderIds(bidSide_') \cup LadderIds(askSide_')
                  /\ id \notin DOMAIN bidSide_'.orders_ \cup DOMAIN askSide_'.orders_
           /\ ~wasResting =>
                  /\ orders' = orders
                  /\ bidSide_' = bidSide_
                  /\ askSide_' = askSide_

C13_CancelOrderContract == [][CancelStep]_vars

\* C13 witness: a partially filled resting order was cancelled.
C13_Witness ==
    /\ lastOp.op = "cancel"
    /\ lastOp.ok
    /\ orders[lastOp.id].status_ = "Cancelled"
    /\ tradedQty[lastOp.id] = 1
    /\ orders[lastOp.id].remainingQuantity_ = 1

\* ------------------------------------------------------------------------
\* Properties of orders with a time in force (checked under SpecTif)
\* ------------------------------------------------------------------------
RECURSIVE SumRemaining(_, _)
SumRemaining(ids, ords) ==
    IF ids = {}
    THEN 0
    ELSE LET x == CHOOSE y \in ids : TRUE
         IN ords[x].remainingQuantity_ + SumRemaining(ids \ {x}, ords)

\* the active orders of the opposite side that order o can trade with
Matchable(o) ==
    {r \in ActiveHeld(IF isBuyOrder(o) THEN askSide_ ELSE bidSide_, orders) :
        \/ isMarketOrder(o)
        \/ IF isBuyOrder(o) THEN orders[r].price_ <= o.price_
                            ELSE orders[r].price_ >= o.price_}

\* C15: adding a FOK order that the opposite side cannot fill completely
\* produces no trade, changes no other order and neither book side, and
\* leaves the order rejected.
FokStep ==
    \A id \in (DOMAIN orders') \ (DOMAIN orders) :
        (/\ orders'[id].timeInForce_ = "FOK"
         /\ SumRemaining(Matchable(orders'[id]), orders) < orders'[id].quantity_) =>
            /\ lastTrades' = <<>>
            /\ \A x \in DOMAIN orders : orders'[x] = orders[x]
            /\ bidSide_' = bidSide_
            /\ askSide_' = askSide_
            /\ orders'[id].status_ = "Rejected"

C15_FokAllOrNothing == [][FokStep]_vars

\* C16: an IOC order is never held by a book side, and whatever its one
\* matching pass left unfilled is cancelled.
C16_IocResidualCancelled ==
    \A id \in DOMAIN orders :
        orders[id].timeInForce_ = "IOC" =>
            /\ id \notin AllHeld
            /\ orders[id].remainingQuantity_ > 0 => orders[id].status_ = "Cancelled"

\* ------------------------------------------------------------------------
\* Properties of the engine (checked under Spec)
\* ------------------------------------------------------------------------
TerminalStatuses == {"Filled", "Cancelled", "Rejected"}

\* the execution reports emitted for one order, in order of emission
ReportsOf(id) == SelectSeq(reports, LAMBDA r : r.orderId = id)

\* C7: the reports of one order carry non-decreasing filled and
\* non-increasing remaining quantities, and once the order is filled,
\* cancelled or rejected the last report emitted for it carries that status.
C7_ReportsMonotoneAndFinal ==
    \A id \in DOMAIN orders :
        LET rs == ReportsOf(id)
        IN /\ \A i \in 1..(Len(rs) - 1) :
                  /\ rs[i + 1].filledQuantity >= rs[i].filledQuantity
                  /\ rs[i + 1].remainingQuantity <= rs[i].remainingQuantity
           /\ orders[id].status_ \in TerminalStatuses =>
                  /\ rs # <<>>
                  /\ rs[Len(rs)].status = orders[id].status_

\* the orders whose client-visible state changes in a step: accepted by the
\* engine, rejected by it, or status / remaining changed
Transitioned ==
    {id \in DOMAIN orders' :
        \/ id \in DOMAIN orderSymbolMap_' /\ id \notin DOMAIN orderSymbolMap_
        \/ lastOp' # lastOp /\ lastOp'.op = "reject" /\ lastOp'.id = id
        \/ id \in DOMAIN orders /\ orders'[id].status_ # orders[id].status_
        \/ id \in DOMAIN orders
              /\ orders'[id].remainingQuantity_ # orders[id].remainingQuantity_}

\* the orders a step emits a report for
NewlyReported ==
    {reports'[i].orderId : i \in (Len(reports) + 1)..Len(reports')}

\* C8: every step that acknowledges, fills (partially or completely), cancels
\* or rejects an order emits a report for that order, be it the incoming or
\* the resting one.
C8_EveryTransitionReported == [][Transitioned \subseteq NewlyReported]_vars

\* C19: when stop() returns the worker has exited, the request queue is
\* empty and the books have been released.
StopReleases ==
    (running_ /\ ~running_') =>
        /\ liveWorkers' = 0
        /\ incomingMessages_' = <<>>
        /\ orderBooks_' = {}

C19_StopDrainsAndReleases == [][StopReleases]_vars

\* C20: no accepted request is lost: once the engine is stopped, every
\* request that submitOrder / cancelOrder / modifyOrder accepted has been
\* processed or acknowledged, so none is left waiting in the queue
\* without a report.
C20_NoAcceptedRequestLost ==
    ~running_ => incomingMessages_ = <<>>

\* C10: the book and the order index are written by the worker thread only,
\* never on a caller's thread, and at most one worker runs.
C10_SingleWriter ==
    /\ lastOp.wrote => lastOp.thread = "worker"
    /\ liveWorkers <= 1

\* the order a queued message is about, and the operations the worker may
\* record for it
MessageTarget(m) == IF m.type = "NewOrder" THEN m.order ELSE m.targetOrderId
MessageOps(m) ==
    IF m.type = "NewOrder" THEN {"add", "reject"}
    ELSE IF m.type = "CancelOrder" THEN {"cancel"}
    ELSE {"modify"}

\* C11: requests are processed in the order they were accepted: the queue
\* only grows at its back, and it only shrinks by the worker processing the
\* request at its front, so two requests (of one client or of several) are
\* never reordered.
FifoStep ==
    incomingMessages_' # incomingMessages_ =>
        \/ /\ Len(incomingMessages_') = Len(incomingMessages_) + 1
           /\ SubSeq(incomingMessages_', 1, Len(incomingMessages_)) = incomingMessages_
        \/ /\ incomingMessages_ # <<>>
           /\ incomingMessages_' = Tail(incomingMessages_)
           /\ lastOp'.thread = "worker"
           /\ lastOp'.id = MessageTarget(Head(incomingMessages_))
           /\ lastOp'.op \in MessageOps(Head(incomingMessages_))
           /\ Len(reports') = Len(reports) + 1

C11_RequestsProcessedInArrivalOrder == [][FifoStep]_vars

\* C11 witness: the worker has cancelled an order it added earlier (the new
\* order and its cancel went through the queue in that order) while a
\* later request still waits.
C11_Witness ==
    /\ lastOp.op = "cancel"
    /\ lastOp.ok
    /\ lastOp.thread = "worker"
    /\ incomingMessages_ # <<>>

\* ------------------------------------------------------------------------
\* Properties of the risk checks (checked under SpecRisk)
\* ------------------------------------------------------------------------
\* the orders whose checks run in a step: the one rejected or the one that
\* passed and now waits for its insertion
CheckedNow ==
    {id \in DOMAIN orders' :
        \/ lastOp' # lastOp /\ lastOp'.op = "reject" /\ lastOp'.id = id
        \/ \E t \in DOMAIN pending : pending'[t] = id /\ pending[t] # id}

\* the order breaks a structural rule or a risk limit in the current state
FailsChecks(o) ==
    \/ o.quantity_ = 0
    \/ o.symbol_ = ""
    \/ isLimitOrder(o) /\ o.price_ <= 0
    \/ enableRiskCheck_ /\ isLimitOrder(o) /\ o.price_ > maxOrderPrice_
    \/ enableRiskCheck_ /\ o.quantity_ > maxOrderQuantity_
    \/ /\ enableRiskCheck_
       /\ o.symbol_ \in orderBooks_
       /\ Cardinality(DOMAIN bidSide_.orders_) + Cardinality(DOMAIN askSide_.orders_)
              >= maxOrdersPerSymbol_

\* C17: a new order that fails validation or a risk check gets exactly one
\* report, Rejected, for its own id; the step makes no trade and leaves the
\* orders, both book sides, the set of books and the order index unchanged.
RejectStep ==
    \A id \in CheckedNow :
        FailsChecks(orders'[id]) =>
            /\ Len(reports') = Len(reports) + 1
            /\ SubSeq(reports', 1, Len(reports)) = reports
            /\ reports'[Len(reports')].orderId = id
            /\ reports'[Len(reports')].status = "Rejected"
            /\ lastTrades' = lastTrades
            /\ \A x \in DOMAIN orders : orders'[x] = orders[x]
            /\ orders'[id].remainingQuantity_ = orders'[id].quantity_
            /\ bidSide_' = bidSide_
            /\ askSide_' = askSide_
            /\ orderBooks_' = orderBooks_
            /\ orderSymbolMap_' = orderSymbolMap_
            /\ pending' = pending

C18_OpenOrdersWithinLimit ==
    enableRiskCheck_ => getTotalOrderCount(BookState) <= maxOrdersPerSymbol_

\* ------------------------------------------------------------------------
\* Properties of the gateway (checked under SpecGateway)
\* ------------------------------------------------------------------------
\* C9: on every connection the MsgSeqNum of the messages sent, session-level
\* and application alike, goes up by exactly one from message to message, and
\* the session's outgoing counter is one past the last number sent.
C9_OutgoingSeqGapFree ==
    \A c \in DOMAIN sessions_ :
        /\ \A i \in 1..(Len(sent[c]) - 1) :
               sent[c][i + 1].MsgSeqNum = sent[c][i].MsgSeqNum + 1
        /\ sent[c] # <<>> =>
               sessions_[c].outgoingSeqNum_ = sent[c][Len(sent[c])].MsgSeqNum + 1

\* ------------------------------------------------------------------------
\* Properties of the gateway wired to the engine (checked under SpecSystem)
\* ------------------------------------------------------------------------
\* C14: every cancel request of a logged-in client is answered with exactly
\* one execution report: when the worker processes a cancel request the
\* gateway passed on, one ExecutionReport (35=8) goes out to a client, be
\* the target still active, already filled or cancelled, or unknown.
CancelAnswered ==
    (/\ incomingMessages_ # <<>>
     /\ incomingMessages_' = Tail(incomingMessages_)
     /\ Head(incomingMessages_).type = "CancelOrder") =>
        \E c \in Clients :
            /\ Len(sent'[c]) = Len(sent[c]) + 1
            /\ sent'[c][Len(sent'[c])].msgType = "8"
            /\ \A d \in Clients \ {c} : sent'[d] = sent[d]

C14_CancelRequestAnswered == [][CancelAnswered]_vars


\* ------------------------------------------------------------------------
\* Properties of the shutdown path (checked under SpecLifecycle)
\* ------------------------------------------------------------------------
\* C21: stop() is re-entrant: whether it finds the engine already stopped or
\* overlaps another stop() in progress, no stop() call ends in an error and
\* the worker thread is joined at most once (exactly once when every caller
\* has returned from a stop of a started engine).
C21_StopReentrant ==
    /\ ~stopFault
    /\ joinCalls <= 1
    /\ (/\ processingThread_ # "none"
        /\ ~running_
        /\ \A t \in StopThreads : stopPc[t].pc = "idle") => joinCalls = 1

\* ------------------------------------------------------------------------
\* Properties of the FIX session (checked under SpecSession)
\* ------------------------------------------------------------------------
\* this step is a call of processIncomingMessage
ReceiveStep ==
    /\ lastIn'.flip # lastIn.flip
    /\ lastIn'.call = "processIncomingMessage"

\* the messages that left through the send function in this step
NewlySent == SubSeq(outbox', Len(outbox) + 1, Len(outbox'))

\* this step gives a logged-in session a well-formed message of its
\* counterparty whose sequence number is above the expected one, the send
\* function accepting what the session sends
GapStep ==
    /\ ReceiveStep
    /\ fixSession.state_ = "LoggedIn"
    /\ lastIn'.msg.valid
    /\ lastIn'.msg.SenderCompID = fixSession.targetCompID_
    /\ lastIn'.msg.TargetCompID = fixSession.senderCompID_
    /\ lastIn'.msg.MsgSeqNum > fixSession.expectedIncomingSeqNum_
    /\ lastIn'.sendOk

\* C22: a logged-in session expecting E that receives sequence number R > E
\* accepts and processes the message (an application message reaches the
\* handler), sends a ResendRequest for exactly [E, R-1], and expects R + 1
\* afterwards, which is above E.
C22_GapAcceptedWithResendRequest ==
    [][GapStep =>
          /\ lastIn'.ok
          /\ (lastIn'.msg.MsgType = "D" =>
                 forwarded' = Append(forwarded, lastIn'.msg.MsgSeqNum))
          /\ Len(NewlySent) >= 1
          /\ NewlySent[1].MsgType = "2"
          /\ NewlySent[1].BeginSeqNo = fixSession.expectedIncomingSeqNum_
          /\ NewlySent[1].EndSeqNo = lastIn'.msg.MsgSeqNum - 1
          /\ \A i \in 2..Len(NewlySent) : NewlySent[i].MsgType # "2"
          /\ fixSession'.expectedIncomingSeqNum_ = lastIn'.msg.MsgSeqNum + 1
          /\ fixSession'.expectedIncomingSeqNum_ > fixSession.expectedIncomingSeqNum_
      ]_vars

\* a logged-in session that expected 2 received an order with sequence
\* number 3: the order was forwarded and messages 2..2 were asked for again
C22_Witness ==
    /\ lastIn.call = "processIncomingMessage"
    /\ lastIn.ok
    /\ lastIn.msg.MsgType = "D"
    /\ lastIn.msg.MsgSeqNum = 3
    /\ forwarded = <<3>>
    /\ fixSession.expectedIncomingSeqNum_ = 4
    /\ \E i \in 1..Len(outbox) :
          /\ outbox[i].MsgType = "2"
          /\ outbox[i].BeginSeqNo = 2
          /\ outbox[i].EndSeqNo = 2

\* C23: an inbound message whose sequence number is below the expected one is
\* dropped silently: nothing is forwarded, nothing is sent, and the session
\* state and the expected sequence number stay as they were.
C23_DuplicateDroppedSilently ==
    [][(/\ ReceiveStep
        /\ lastIn'.msg.MsgSeqNum < fixSession.expectedIncomingSeqNum_)
       => /\ ~lastIn'.ok
          /\ forwarded' = forwarded
          /\ outbox' = outbox
          /\ fixSession'.state_ = fixSession.state_
          /\ fixSession'.expectedIncomingSeqNum_ = fixSession.expectedIncomingSeqNum_
      ]_vars

\* C24: once the counterparty's CompID is bound, a message whose SenderCompID
\* is not that CompID or whose TargetCompID is not the session's own is
\* dropped: it is not forwarded and changes neither the session state nor the
\* expected sequence number.
C24_CompIdMismatchDropped ==
    [][(/\ ReceiveStep
        /\ fixSession.targetCompID_ # NoCompID
        /\ \/ lastIn'.msg.SenderCompID # fixSession.targetCompID_
           \/ lastIn'.msg.TargetCompID # fixSession.senderCompID_)
       => /\ ~lastIn'.ok
          /\ forwarded' = forwarded
          /\ fixSession'.state_ = fixSession.state_
          /\ fixSession'.expectedIncomingSeqNum_ = fixSession.expectedIncomingSeqNum_
          /\ fixSession'.targetCompID_ = fixSession.targetCompID_
      ]_vars

\* a logged-in session bound to CLIENT was given an in-sequence order
\* addressed to another CompID and dropped it
C24_Witness ==
    /\ lastIn.call = "processIncomingMessage"
    /\ fixSession.state_ = "LoggedIn"
    /\ fixSession.targetCompID_ = RemoteCompID
    /\ lastIn.msg.valid
    /\ lastIn.msg.MsgType = "D"
    /\ lastIn.msg.SenderCompID = RemoteCompID
    /\ lastIn.msg.TargetCompID = OtherCompID
    /\ lastIn.msg.MsgSeqNum = fixSession.expectedIncomingSeqNum_
    /\ ~lastIn.ok
    /\ "CompID mismatch in message" \in lastIn.errors
    /\ forwarded = <<>>

\* C25: when a logged-in session has received nothing for more than 1.2 times
\* its heartbeat interval, the next heartbeat check moves it to Error and
\* reports a heartbeat timeout.
C25_SilenceTimesOut ==
    [][(/\ lastIn'.flip # lastIn.flip
        /\ lastIn'.call = "checkHeartbeat"
        /\ fixSession.state_ = "LoggedIn"
        /\ 10 * (now - lastInboundAt) > 12 * fixSession.heartbeatInterval_)
       => /\ fixSession'.state_ = "Error"
          /\ "Heartbeat timeout" \in lastIn'.errors
      ]_vars

\* ------------------------------------------------------------------------
\* Properties of the FIX codec (checked under SpecCodec)
\* ------------------------------------------------------------------------
\* C26: for a record set R with BeginString and MsgType, the strict parse of
\* serialize(R) succeeds and returns exactly the tags of R plus BodyLength and
\* CheckSum, every tag of R with the value it has in R.
C26_RoundTrip ==
    (parsed.call = "parse" /\ ~tampered) =>
        /\ parsed.ok
        /\ DOMAIN parsed.fields = DOMAIN fields_ \cup {BodyLength, CheckSum}
        /\ \A tag \in DOMAIN fields_ : parsed.fields[tag] = fields_[tag]

\* the bytes of a serialized message before its last seven bytes
BeforeCheckSum == SubSeq(rawMessage, 1, Len(rawMessage) - 7)

\* the last seven bytes of the message
LastSeven == SubSeq(rawMessage, Len(rawMessage) - 6, Len(rawMessage))

\* the last seven bytes are "10=", three decimal digits and SOH, the digits
\* reading the sum of the bytes before them modulo 256
WireCheckSumOk ==
    /\ Len(rawMessage) > 7
    /\ rawMessage[Len(rawMessage) - 7] \in {SOH, BytePipe}
    /\ SubSeq(LastSeven, 1, 3) = <<ByteZero + 1, ByteZero, ByteEquals>>
    /\ \A i \in 4..6 : LastSeven[i] \in ByteZero..(ByteZero + 9)
    /\ LastSeven[7] \in {SOH, BytePipe}
    /\ 100 * (LastSeven[4] - ByteZero) + 10 * (LastSeven[5] - ByteZero)
          + (LastSeven[6] - ByteZero) = byteSum(BeforeCheckSum) % 256

\* C27: a serialized message ends with the CheckSum field, whose value is the
\* sum of all bytes before the CheckSum tag modulo 256, written as exactly
\* three zero-padded decimal digits.
C27_CheckSumOfSerialized ==
    (rawMessage # <<>> /\ ~tampered) =>
        /\ WireCheckSumOk
        /\ LastSeven[7] = SOH

\* a serialized message whose checksum is below 100
C27_Witness ==
    /\ rawMessage # <<>>
    /\ ~tampered
    /\ byteSum(BeforeCheckSum) % 256 < 100
    /\ LastSeven[4] = ByteZero

\* C28: the strict parse fails for a parseable input whose CheckSum field is
\* absent or is not the sum of the bytes before it modulo 256, and the
\* lenient parse of such an input succeeds and returns the records read.
C28_StrictRejectsBadCheckSum ==
    (/\ parsed.call # "none"
     /\ parseFields(rawMessage, 1, EmptyFn).ok
     /\ ~WireCheckSumOk)
    => IF parsed.call = "parse"
       THEN ~parsed.ok
       ELSE parsed.ok /\ parsed.fields = parseFields(rawMessage, 1, EmptyFn).fields

\* ------------------------------------------------------------------------
\* Properties of the locking (checked under SpecLocks)
\* ------------------------------------------------------------------------
\* the mutexes a thread owns
owned(t) == {l \in Mutexes : \E mode \in {"exclusive", "shared"} : <<t, mode>> \in owners[l]}

\* C29: while the worker is in the gateway's execution report callback
\* (owning a gateway mutex or about to take one) it owns no book mutex and
\* not the books-map mutex.
C29_ReportDeliveredWithoutBookLocks ==
    (\/ owned("worker") \cap {"mappingsMutex_", "clients_mutex_"} # {}
     \/ /\ lockProgram["worker"] # <<>>
        /\ Head(lockProgram["worker"])[2] \in {"mappingsMutex_", "clients_mutex_"})
    => owned("worker") \cap {"mutex_", "orderBooksMutex_"} = {}

\* the worker is delivering the report of a cancel request while a caller
\* thread owns the book mutex
C29_Witness ==
    /\ lockOp["worker"] = "CancelOrder"
    /\ owned("worker") = {"mappingsMutex_"}
    /\ \E t \in LockThreads \ {"worker"} : "mutex_" \in owned(t)

\* a set of threads each of which waits for a thread of the set
Deadlocked ==
    \E S \in (SUBSET LockThreads) \ {{}} : \A t \in S : blockers(t) \cap S # {}

\* C30: no interleaving of the worker with callers of submitOrder,
\* cancelOrder, findOrder, getMarketData, processOrderSync and cancelOrderSync
\* deadlocks.
C30_NoDeadlock == ~Deadlocked

\* ------------------------------------------------------------------------
\* Properties of the order lifecycle (checked under Spec)
\* ------------------------------------------------------------------------
\* C31: an order that reached a terminal status (filled, cancelled or
\* rejected) is held by no book side and has no entry in the engine's
\* order id -> symbol index.
C31_TerminalOrderPurged ==
    \A id \in DOMAIN orders :
        orders[id].status_ \in TerminalStatuses =>
            /\ id \notin AllHeld
            /\ id \notin DOMAIN orderSymbolMap_

\* the worker processes a ModifyOrder request whose target is an active
\* order resting in the book
ModifiesRestingOrder ==
    /\ incomingMessages_ # <<>>
    /\ incomingMessages_' = Tail(incomingMessages_)
    /\ Head(incomingMessages_).type = "ModifyOrder"
    /\ lastOp'.op = "modify"
    /\ findOrder(EngineState, Head(incomingMessages_).targetOrderId) # NoOrder
    /\ isActive(orders[Head(incomingMessages_).targetOrderId])
    /\ Head(incomingMessages_).targetOrderId \in AllHeld

\* C32: processing ModifyOrder for an active resting order cancels it and
\* inserts a new order carrying the new price and the new quantity, which
\* afterwards rests in the book or has traded.
ModifyStep ==
    ModifiesRestingOrder =>
        /\ orders'[Head(incomingMessages_).targetOrderId].status_ = "Cancelled"
        /\ \E id \in (DOMAIN orders') \ (DOMAIN orders) :
              /\ orders'[id].price_ = Head(incomingMessages_).newPrice
              /\ orders'[id].quantity_ = Head(incomingMessages_).newQuantity
              /\ \/ id \in HeldIds(bidSide_') \cup HeldIds(askSide_')
                 \/ getFilledQuantity(orders'[id]) > 0

C32_ModifyIsCancelThenInsert == [][ModifyStep]_vars

\* ------------------------------------------------------------------------
\* Properties of the gateway's order table (checked under SpecSystem and
\* SpecGateway)
\* ------------------------------------------------------------------------
\* C33: once the engine has processed every submitted request, each entry of
\* orderMappings_ is for an order that was submitted to the engine and is
\* not filled, cancelled or rejected.
C33_OpenOrdersOnlyLive ==
    incomingMessages_ = <<>> =>
        \A id \in DOMAIN orderMappings_ :
            /\ id \in DOMAIN orders
            /\ orders[id].status_ \notin TerminalStatuses

\* C34: handling the disconnect of a client removes its session and every
\* orderMappings_ entry of the orders it submitted.
DisconnectStep ==
    \A c \in Clients :
        (c \in DOMAIN sessions_ /\ c \notin DOMAIN sessions_') =>
            \A id \in DOMAIN orderMappings_' : orderMappings_'[id] # c

C34_DisconnectPurgesClientState == [][DisconnectStep]_vars

\* C35: an execution report for an order goes only to the client connection
\* that submitted the order: the socket it is sent on is the submitter's, and
\* it still stands for the submitter's connection.
C35_ReportsReachSubmitterOnly ==
    lastReport # NoReport =>
        /\ lastReport.orderId \in DOMAIN submittedBy
        /\ submittedBy[lastReport.orderId] =
               [socket |-> lastReport.socket, connection |-> lastReport.connection]

\* ------------------------------------------------------------------------
\* Properties of the session state machine (checked under SpecSession)
\* ------------------------------------------------------------------------
\* the message handed to the session in this step carries the CompIDs the
\* session expects, an empty counterparty CompID expecting any sender
IdsMatch ==
    /\ \/ fixSession.targetCompID_ = NoCompID
       \/ lastIn'.msg.SenderCompID = fixSession.targetCompID_
    /\ lastIn'.msg.TargetCompID = fixSession.senderCompID_

\* the message handed to the session in this step is well formed, carries
\* the expected CompIDs and is not below the expected sequence number
PassesChecks ==
    /\ lastIn'.msg.valid
    /\ IdsMatch
    /\ lastIn'.msg.MsgSeqNum >= fixSession.expectedIncomingSeqNum_

\* C36: a Disconnected session given a Logon with matching CompIDs (an empty
\* counterparty CompID adopting the sender's) becomes LoggedIn and sends
\* exactly one Logon; given a Logon whose CompIDs do not match it stays
\* Disconnected and sends nothing.
LogonStep ==
    (/\ ReceiveStep
     /\ fixSession.state_ = "Disconnected"
     /\ lastIn'.msg.MsgType = "A") =>
        IF IdsMatch
        THEN PassesChecks =>
                /\ fixSession'.state_ = "LoggedIn"
                /\ fixSession'.targetCompID_ = lastIn'.msg.SenderCompID
                /\ lastIn'.sendOk =>
                      Cardinality({i \in 1..Len(NewlySent) : NewlySent[i].MsgType = "A"}) = 1
        ELSE /\ fixSession'.state_ = "Disconnected"
             /\ outbox' = outbox

LogoutStep ==
    /\ (/\ lastIn'.flip # lastIn.flip
        /\ lastIn'.call = "logout"
        /\ fixSession.state_ = "LoggedIn"
        /\ lastIn'.sendOk) =>
           /\ Len(NewlySent) = 1
           /\ NewlySent[1].MsgType = "5"
           /\ fixSession'.state_ = "PendingLogout"
    /\ (fixSession.state_ = "PendingLogout" /\ fixSession'.state_ = "LoggedOut") =>
           /\ ReceiveStep
           /\ lastIn'.msg.MsgType = "5"

C37_LogoutWaitsForReply == [][LogoutStep]_vars

\* C38: an application message that reaches a session which is not LoggedIn
\* is not forwarded to the application handler and puts the session in the
\* Error state; messages are forwarded only by a LoggedIn session.
ApplicationStep ==
    /\ (/\ ReceiveStep
        /\ lastIn'.msg.MsgType = "D"
        /\ PassesChecks
        /\ fixSession.state_ # "LoggedIn") =>
           /\ forwarded' = forwarded
           /\ fixSession'.state_ = "Error"
    /\ forwarded' # forwarded => fixSession.state_ = "LoggedIn"

C38_ApplicationMessageNeedsLogin == [][ApplicationStep]_vars

\* C39: a SequenceReset (35=4) that arrives in sequence is handled by the
\* session itself (it does not reach the application handler) and sets the
\* expected inbound sequence number to its NewSeqNo.
SequenceResetStep ==
    (/\ ReceiveStep
     /\ lastIn'.msg.MsgType = "4"
     /\ PassesChecks
     /\ lastIn'.msg.MsgSeqNum = fixSession.expectedIncomingSeqNum_) =>
        /\ forwarded' = forwarded
        /\ fixSession'.expectedIncomingSeqNum_ = lastIn'.msg.NewSeqNo

C39_SequenceResetSetsExpected == [][SequenceResetStep]_vars

\* C40: a heartbeat check on a LoggedIn session whose last own message left
\* at least one heartbeat interval ago sends a Heartbeat.
HeartbeatStep ==
    (/\ lastIn'.flip # lastIn.flip
     /\ lastIn'.call = "checkHeartbeat"
     /\ fixSession.state_ = "LoggedIn"
     /\ lastIn'.sendOk
     /\ outbox # <<>>
     /\ now - lastOutboundAt >= fixSession.heartbeatInterval_) =>
        \E i \in 1..Len(NewlySent) : NewlySent[i].MsgType = "0"

C40_HeartbeatAfterOutboundSilence == [][HeartbeatStep]_vars
====
